---- MODULE Spec2Model ----
(***************************************************************************)
(* Reconciliation engine of the freqtrade operator: one Bot custom         *)
(* resource, the four dependent objects the controller materialises for it *)
(* (ConfigMap, PersistentVolumeClaim, Deployment, Service), the API server *)
(* that stores them, and the actors that change them (the user, other      *)
(* writers, the Deployment controller, the garbage collector).             *)
(*                                                                         *)
(* One reconcile invocation is one action.  Its inputs are the call that   *)
(* the API server fails (if any) and the fetches that return an error.     *)
(* Option<T> is a sequence of length at most one: None is <<>>, Some(x)    *)
(* is <<x>>.  An empty String is <<>> where the code tests is_empty().     *)
(***************************************************************************)
EXTENDS Integers, Sequences, FiniteSets, TLC

VARIABLES bot, config_map, pvc, deployment, service, stable, last, probe

vars == <<bot, config_map, pvc, deployment, service, stable, last, probe>>

(***************************************************************************)
(* Bounds of the model.                                                    *)
(***************************************************************************)
\* Most API calls (fetches and writes) that fail in one reconcile.
MaxFaults == 1
\* Longest condition list of a DeploymentStatus in the phase derivation.
MaxConds == 2
\* Most entries of one JSON object of spec.config (and of a nested object).
MaxEntries == 2

None == <<>>
Some(x) == <<x>>
is_some(o) == o # <<>>
is_none(o) == o = <<>>
unwrap(o) == o[1]

(***************************************************************************)
(* Program constants.                                                      *)
(***************************************************************************)
FINALIZER == "bots.finalizers.freqtrade.io"
CONFIG_HASH_ANNOTATION == "bots.freqtrade.io/config-hash"
RESTARTED_AT == "kube.kubernetes.io/restartedAt"
REQUEUE_SECS == 30
REPLICAS == 1
DEFAULT_API_PORT == 8080
DEFAULT_MODE == 420

\* Lexicographic rank of the keys and names that the code sorts.
KeyRank(k) ==
    CASE k = "FREQTRADE__BOT_NAME" -> 1
      [] k = "FREQTRADE__STRATEGY" -> 2
      [] k = "config" -> 3
      [] k = "config.json" -> 4
      [] k = "inner" -> 5
      [] k = "key" -> 6
      [] k = "model" -> 7
      [] k = "model.py" -> 8
      [] k = "nested" -> 9
      [] k = "strategy" -> 10
      [] k = "strategy.py" -> 11
      [] k = "user-data" -> 12

RECURSIVE SortedKeys(_)
\* The keys of a BTreeMap in iteration order (ascending).
SortedKeys(S) ==
    IF S = {} THEN <<>>
    ELSE LET k == CHOOSE x \in S : \A y \in S : KeyRank(x) <= KeyRank(y)
         IN  <<k>> \o SortedKeys(S \ {k})

RECURSIVE Entries(_, _)
Entries(m, keys) ==
    IF keys = <<>> THEN <<>>
    ELSE <<<<keys[1], m[keys[1]]>>>> \o Entries(m, Tail(keys))

\* serde_json::Value: a string or an object; an object is a map from keys
\* to values (serde_json::Map is a BTreeMap).
Str(s) == [str |-> s]
Obj(m) == [obj |-> m]
IsStr(v) == "str" \in DOMAIN v

RECURSIVE ObjectText(_), EntriesText(_, _)
\* The text of a map: its entries in key order.
ObjectText(m) == <<"{">> \o EntriesText(m, SortedKeys(DOMAIN m)) \o <<"}">>

EntriesText(m, keys) ==
    IF keys = <<>> THEN <<>>
    ELSE <<keys[1], ":">>
         \o (IF IsStr(m[keys[1]]) THEN <<m[keys[1]].str>> ELSE ObjectText(m[keys[1]].obj))
         \o (IF Len(keys) > 1 THEN <<",">> ELSE <<>>)
         \o EntriesText(m, Tail(keys))

\* serde_json::to_string of an Option<BTreeMap<String, Value>>: the text
\* "null" for None, otherwise the entries in key order.
to_string(o) ==
    IF is_none(o) THEN <<"null">> ELSE ObjectText(unwrap(o))

\* An entry of a JSON object as it is written.
Entry(k, v) == [key |-> k, value |-> v]

RECURSIVE from_json(_)
\* Deserialisation of the entries of a JSON object, in the order in which
\* they are written, into a map; of two entries with one key the later wins.
from_json(entries) ==
    [k \in {entries[i].key : i \in 1..Len(entries)} |->
        LET i == CHOOSE i \in 1..Len(entries) :
                    /\ entries[i].key = k
                    /\ \A j \in (i + 1)..Len(entries) : entries[j].key # k
        IN  IF IsStr(entries[i].value) THEN entries[i].value
            ELSE Obj(from_json(entries[i].value.obj))]

\* Variant: the values are left out of the canonical form.
sort_json_keys_only(m) == SortedKeys(DOMAIN m)

\* sort_json leaves a map of strings as it is apart from the key order.
sort_json(m) == Entries(m, SortedKeys(DOMAIN m))

\* compute_object_hash: the digest of the canonical text.  The digest is
\* modelled as a collision-free tag of the text it is computed from.
compute_object_hash(data) ==
    IF is_none(data) THEN <<"blake3", <<"null">>>>
    ELSE <<"blake3", sort_json(unwrap(data))>>

(***************************************************************************)
(* Phase derivation.                                                       *)
(***************************************************************************)
Condition(t, s) == [type |-> t, status |-> s]

\* Variant: Available=True is looked for before Progressing=False.
BotPhaseFrom_running_first(status) ==
    IF is_some(status.conditions)
    THEN LET conditions == unwrap(status.conditions) IN
         IF \E i \in 1..Len(conditions) :
                conditions[i].type = "Available" /\ conditions[i].status = "True"
         THEN "running"
         ELSE IF \E i \in 1..Len(conditions) :
                conditions[i].type = "Progressing" /\ conditions[i].status = "False"
         THEN "error"
         ELSE "pending"
    ELSE "pending"

\* Variant: any condition with status False counts as an error.
BotPhaseFrom_any_false(status) ==
    IF is_some(status.conditions)
    THEN LET conditions == unwrap(status.conditions) IN
         IF \E i \in 1..Len(conditions) : conditions[i].status = "False"
         THEN "error"
         ELSE IF \E i \in 1..Len(conditions) :
                conditions[i].type = "Available" /\ conditions[i].status = "True"
         THEN "running"
         ELSE "pending"
    ELSE "pending"

BotPhaseFrom(status) ==
    IF is_some(status.conditions)
    THEN LET conditions == unwrap(status.conditions) IN
         IF \E i \in 1..Len(conditions) :
                conditions[i].type = "Progressing" /\ conditions[i].status = "False"
         THEN "error"
         ELSE IF \E i \in 1..Len(conditions) :
                conditions[i].type = "Available" /\ conditions[i].status = "True"
         THEN "running"
         ELSE "pending"
    ELSE "pending"

(***************************************************************************)
(* The Bot specification (hub form) and the projections.                   *)
(***************************************************************************)
\* BotPvcSpec::default, BotApiSpec::default, BotServiceSpec::default; of the
\* annotations and labels of each the labels are kept.
default_pvc == [enabled |-> TRUE, labels |-> None, storage_class |-> None, size |-> "1Gi"]
default_api == [enabled |-> TRUE, host |-> "0.0.0.0", port |-> DEFAULT_API_PORT]
default_service == [service_type |-> "ClusterIP", labels |-> None, ports |-> <<>>]

\* BotDeploymentSpec::default: of its fields the labels are kept.
default_deployment == [labels |-> None]

\* The configurations a user gives the Bot: none, or a map of one key.
Configs == {None, Some([key |-> Str("v1")])}

\* A Bot with exchange and strategy set and defaults elsewhere.
BotSpec(config, pvc_enabled, api_enabled) ==
    [config |-> config,
     strategy |-> [name |-> "S", source |-> Some("pass"), config_map_name |-> None],
     model |-> None,
     image |-> [repository |-> None, tag |-> None, pull_policy |-> None,
                pull_secrets |-> None],
     api |-> [default_api EXCEPT !.enabled = api_enabled],
     service |-> default_service,
     deployment |-> default_deployment,
     pvc |-> [default_pvc EXCEPT !.enabled = pvc_enabled]]

unwrap_or_default(o) == IF is_some(o) THEN unwrap(o) ELSE ""
unwrap_or(o, d) == IF is_some(o) THEN unwrap(o) ELSE d

\* AppConfig: controller.defaultImageRepo and controller.defaultImageTag.
default_image_repo == "freqtradeorg/freqtrade"
default_image_tag == "stable"

\* The labels that identify the objects of the Bot, which is named "bot".
identifying_labels ==
    [k \in {"freqtrade.io/bot-name", "app.kubernetes.io/name",
            "app.kubernetes.io/instance"} |-> "bot"]

metadata_labels ==
    ("app.kubernetes.io/component" :> "bot")
    @@ ("app.kubernetes.io/part-of" :> "freqtrade")
    @@ ("app.kubernetes.io/managed-by" :> "freqtrade-operator")

\* BTreeMap::extend: the entries of more replace those of labels.
extend(labels, more) ==
    [k \in DOMAIN labels \cup DOMAIN more |->
        IF k \in DOMAIN more THEN more[k] ELSE labels[k]]

\* Variant: the entries already in the map are kept.
DeploymentLabels_user_first(spec) ==
    Some(extend(extend(metadata_labels, identifying_labels),
                unwrap_or(spec.deployment.labels, <<>>)))

\* The labels of the Deployment and of its pod template: the user's labels,
\* extended by the identifying and then by the metadata labels.
DeploymentLabels(spec) ==
    Some(extend(extend(unwrap_or(spec.deployment.labels, <<>>), identifying_labels),
                metadata_labels))

\* ConfigMap::from_hub
ConfigMap_from_hub(spec) ==
    [labels |-> None,
     data |-> Some(
         [k \in {"config.json"}
                 \cup (IF is_none(spec.strategy.config_map_name)
                       THEN {"strategy.py"} ELSE {})
                 \cup (IF is_some(spec.model) /\ is_some(unwrap(spec.model).source)
                       THEN {"model.py"} ELSE {})
            |-> CASE k = "config.json" -> to_string(spec.config)
                  [] k = "strategy.py" -> unwrap_or_default(spec.strategy.source)
                  [] k = "model.py" -> unwrap(unwrap(spec.model).source)])]

\* PersistentVolumeClaim::from_hub
\* The controller owner reference of the Bot that reconcile hands to from_hub.
owner_ref == [kind |-> "Bot", name |-> "bot", controller |-> TRUE]

PersistentVolumeClaim_from_hub(spec) ==
    [labels |-> spec.pvc.labels,
     owner_references |-> Some(<<owner_ref>>),
     spec |-> Some([access_modes |-> Some(<<"ReadWriteOnce">>),
                     resources |-> Some([requests |-> Some([storage |-> spec.pvc.size])]),
                     storage_class_name |-> spec.pvc.storage_class])]

create_env_var(name, value) == [name |-> name, value |-> value]

\* The volumes of the pod template in Deployment::from_hub.
ProjectedVolumes(spec) ==
    <<[name |-> "config",
       config_map |-> Some([name |-> "bot", default_mode |-> None]),
       persistent_volume_claim |-> None]>>
    \o (IF spec.pvc.enabled
        THEN <<[name |-> "user-data",
                config_map |-> None,
                persistent_volume_claim |-> Some([claim_name |-> "bot"])]>>
        ELSE <<>>)
    \o (IF is_some(spec.strategy.config_map_name)
        THEN <<[name |-> "strategy",
                config_map |-> Some([name |-> unwrap(spec.strategy.config_map_name),
                                     default_mode |-> None]),
                persistent_volume_claim |-> None]>>
        ELSE <<>>)

\* Deployment::from_hub (the Bot is named "bot").  Of the environment the
\* first and the fifth variable are kept.
Deployment_from_hub(spec) ==
    [labels |-> DeploymentLabels(spec),
     replicas |-> Some(REPLICAS),
     selector |-> identifying_labels,
     template_labels |-> DeploymentLabels(spec),
     containers |-> <<
        [image |-> Some(<<unwrap_or(spec.image.repository, default_image_repo),
                          unwrap_or(spec.image.tag, default_image_tag)>>),
         image_pull_policy |-> spec.image.pull_policy,
         command |-> Some(<<"freqtrade", "trade", "--config", "/etc/freqtrade/config.json">>),
         env |-> Some(<<
            create_env_var("FREQTRADE__STRATEGY", Some(spec.strategy.name)),
            create_env_var("FREQTRADE__BOT_NAME", Some("bot"))>>),
         ports |-> Some(<<[container_port |-> spec.api.port, name |-> Some("api"),
                           protocol |-> None]>>),
         volume_mounts |-> Some(<<[name |-> "config", mount_path |-> "/etc/freqtrade"]>>),
         resources |-> None,
         security_context |-> None]>>,
     volumes |-> Some(ProjectedVolumes(spec)),
     node_selector |-> None,
     affinity |-> None,
     tolerations |-> None,
     security_context |-> None,
     image_pull_secrets |-> spec.image.pull_secrets]

\* BotServiceSpec::ensure_api_port
ensure_api_port(service_spec, api_port) ==
    IF ~ \E i \in 1..Len(service_spec.ports) : service_spec.ports[i].name = "api"
    THEN [service_spec EXCEPT !.ports =
            Append(@, [name |-> "api", port |-> api_port, target_port |-> "api"])]
    ELSE service_spec

\* Service::from_hub
Service_from_hub(spec) ==
    LET svc == IF spec.api.enabled THEN ensure_api_port(spec.service, spec.api.port)
               ELSE spec.service
    IN  [labels |-> svc.labels,
         owner_references |-> Some(<<owner_ref>>),
         type |-> Some(svc.service_type),
         selector |-> Some(identifying_labels),
         ports |-> Some([i \in 1..Len(svc.ports) |->
                           [name |-> Some(svc.ports[i].name),
                            port |-> svc.ports[i].port,
                            target_port |-> Some(svc.ports[i].target_port),
                            protocol |-> None]])]

(***************************************************************************)
(* Drift detection: has_drifted(self, other), self the observed object.    *)
(***************************************************************************)
ConfigMap_has_drifted(self, other) == self.data # other.data

PersistentVolumeClaim_has_drifted(self, other) ==
    CASE is_some(self.spec) /\ is_some(other.spec) ->
            LET spec == unwrap(self.spec)
                other_spec == unwrap(other.spec)
            IN  \/ /\ is_some(spec.storage_class_name)
                   /\ is_some(other_spec.storage_class_name)
                   /\ spec.storage_class_name # other_spec.storage_class_name
                \/ spec.resources # other_spec.resources
      [] is_none(self.spec) /\ is_none(other.spec) -> FALSE
      [] OTHER -> TRUE

compare_container_ports(self_ports, other_ports) ==
    CASE is_some(self_ports) /\ is_some(other_ports) ->
            LET sp == unwrap(self_ports)
                op == unwrap(other_ports)
            IN  \/ Len(sp) # Len(op)
                \/ \E i \in 1..Len(sp) :
                      \/ sp[i].container_port # op[i].container_port
                      \/ sp[i].name # op[i].name
                      \/ unwrap_or(sp[i].protocol, "TCP") # unwrap_or(op[i].protocol, "TCP")
      [] is_none(self_ports) /\ is_none(other_ports) -> FALSE
      [] OTHER -> TRUE

RECURSIVE InsertByName(_, _)
InsertByName(x, s) ==
    IF s = <<>> THEN <<x>>
    ELSE IF KeyRank(x.name) <= KeyRank(s[1].name) THEN <<x>> \o s
    ELSE <<s[1]>> \o InsertByName(x, Tail(s))

RECURSIVE sort_by_name(_)
\* Vec::sort_by(|a, b| a.name.cmp(&b.name)), a stable sort.
sort_by_name(s) ==
    IF s = <<>> THEN <<>> ELSE InsertByName(s[1], sort_by_name(Tail(s)))

\* Variant: the lists are compared as they stand, unsorted.
compare_env_vars_unsorted(self_vars, other_vars) ==
    CASE is_some(self_vars) /\ is_some(other_vars) ->
            \/ Len(unwrap(self_vars)) # Len(unwrap(other_vars))
            \/ unwrap(self_vars) # unwrap(other_vars)
      [] is_none(self_vars) /\ is_none(other_vars) -> FALSE
      [] OTHER -> TRUE

compare_env_vars(self_vars, other_vars) ==
    CASE is_some(self_vars) /\ is_some(other_vars) ->
            \/ Len(unwrap(self_vars)) # Len(unwrap(other_vars))
            \/ sort_by_name(unwrap(self_vars)) # sort_by_name(unwrap(other_vars))
      [] is_none(self_vars) /\ is_none(other_vars) -> FALSE
      [] OTHER -> TRUE

volumes_are_equal(self_vol, other_vol) ==
    IF self_vol = other_vol THEN TRUE
    ELSE CASE is_some(self_vol.config_map) /\ is_some(other_vol.config_map) ->
                LET self_config == unwrap(self_vol.config_map)
                    other_config == unwrap(other_vol.config_map)
                IN  /\ self_config.name = other_config.name
                    /\ \/ /\ is_none(self_config.default_mode)
                          /\ other_config.default_mode = Some(DEFAULT_MODE)
                       \/ /\ self_config.default_mode = Some(DEFAULT_MODE)
                          /\ is_none(other_config.default_mode)
                       \/ self_config.default_mode = other_config.default_mode
           [] is_none(self_vol.config_map) /\ is_none(other_vol.config_map) -> TRUE
           [] OTHER -> FALSE

compare_volumes(self_vols, other_vols) ==
    CASE is_some(self_vols) /\ is_some(other_vols) ->
            \/ Len(unwrap(self_vols)) # Len(unwrap(other_vols))
            \/ LET self_sorted == sort_by_name(unwrap(self_vols))
                   other_sorted == sort_by_name(unwrap(other_vols))
               IN  \E i \in 1..Len(self_sorted) :
                      ~ volumes_are_equal(self_sorted[i], other_sorted[i])
      [] is_none(self_vols) /\ is_none(other_vols) -> FALSE
      [] OTHER -> TRUE

\* Variant: a value on the second side is enough.
desired_set_and_differ(a, b) == is_some(b) /\ a # b

both_some_and_differ(a, b) == is_some(a) /\ is_some(b) /\ a # b

\* Variant: the replica count is not compared.
Deployment_has_drifted_no_replicas(self, other) ==
    \/ Len(self.containers) # Len(other.containers)
    \/ \E i \in 1..Len(self.containers) :
          LET self_container == self.containers[i]
              other_container == other.containers[i]
          IN  \/ self_container.image # other_container.image
              \/ self_container.command # other_container.command
              \/ compare_container_ports(self_container.ports, other_container.ports)
              \/ both_some_and_differ(self_container.image_pull_policy,
                                      other_container.image_pull_policy)
              \/ compare_env_vars(self_container.env, other_container.env)
              \/ self_container.volume_mounts # other_container.volume_mounts
              \/ both_some_and_differ(self_container.resources, other_container.resources)
    \/ compare_volumes(self.volumes, other.volumes)
    \/ both_some_and_differ(self.node_selector, other.node_selector)
    \/ self.affinity # other.affinity
    \/ self.tolerations # other.tolerations
    \/ both_some_and_differ(self.security_context, other.security_context)
    \/ [i \in 1..Len(self.containers) |-> self.containers[i].security_context]
         # [i \in 1..Len(other.containers) |-> other.containers[i].security_context]
    \/ self.image_pull_secrets # other.image_pull_secrets

Deployment_has_drifted(self, other) ==
    \/ self.replicas # other.replicas
    \/ Len(self.containers) # Len(other.containers)
    \/ \E i \in 1..Len(self.containers) :
          LET self_container == self.containers[i]
              other_container == other.containers[i]
          IN  \/ self_container.image # other_container.image
              \/ self_container.command # other_container.command
              \/ compare_container_ports(self_container.ports, other_container.ports)
              \/ both_some_and_differ(self_container.image_pull_policy,
                                      other_container.image_pull_policy)
              \/ compare_env_vars(self_container.env, other_container.env)
              \/ self_container.volume_mounts # other_container.volume_mounts
              \/ both_some_and_differ(self_container.resources, other_container.resources)
    \/ compare_volumes(self.volumes, other.volumes)
    \/ both_some_and_differ(self.node_selector, other.node_selector)
    \/ self.affinity # other.affinity
    \/ self.tolerations # other.tolerations
    \/ both_some_and_differ(self.security_context, other.security_context)
    \/ [i \in 1..Len(self.containers) |-> self.containers[i].security_context]
         # [i \in 1..Len(other.containers) |-> other.containers[i].security_context]
    \/ self.image_pull_secrets # other.image_pull_secrets

Min(a, b) == IF a < b THEN a ELSE b

\* Variant: the protocol of the observed port is not defaulted to TCP.
Service_has_drifted_raw_protocol(self, other) ==
    \/ self.type # other.type
    \/ self.selector # other.selector
    \/ LET sp == unwrap_or(self.ports, <<>>)
           op == unwrap_or(other.ports, <<>>)
       IN  \E i \in 1..Min(Len(sp), Len(op)) :
              \/ sp[i].port # op[i].port
              \/ sp[i].name # op[i].name
              \/ sp[i].target_port # op[i].target_port
              \/ sp[i].protocol # Some(unwrap_or(op[i].protocol, "TCP"))

Service_has_drifted(self, other) ==
    \/ self.type # other.type
    \/ self.selector # other.selector
    \/ LET sp == unwrap_or(self.ports, <<>>)
           op == unwrap_or(other.ports, <<>>)
       IN  \E i \in 1..Min(Len(sp), Len(op)) :
              \/ sp[i].port # op[i].port
              \/ sp[i].name # op[i].name
              \/ sp[i].target_port # op[i].target_port
              \/ unwrap_or(sp[i].protocol, "TCP") # unwrap_or(op[i].protocol, "TCP")

(***************************************************************************)
(* The API server: what it stores when an object is applied or patched.    *)
(***************************************************************************)
EmptyStatus == [conditions |-> None]

\* Defaults the API server fills in on the fields the operator leaves unset.
DefaultedDeployment(obj) ==
    [obj EXCEPT
       !.containers = [i \in 1..Len(@) |->
            [@[i] EXCEPT
               !.image_pull_policy = IF is_none(@) THEN Some("IfNotPresent") ELSE @,
               !.ports = IF is_none(@) THEN @
                         ELSE Some([j \in 1..Len(unwrap(@)) |->
                                [unwrap(@)[j] EXCEPT
                                   !.protocol = IF is_none(@) THEN Some("TCP") ELSE @]])]],
       !.volumes = IF is_none(@) THEN @
                   ELSE Some([j \in 1..Len(unwrap(@)) |->
                          [unwrap(@)[j] EXCEPT
                             !.config_map =
                                IF is_none(@) THEN @
                                ELSE Some([unwrap(@) EXCEPT
                                       !.default_mode =
                                          IF is_none(@) THEN Some(DEFAULT_MODE) ELSE @])]]),
       !.security_context = IF is_none(@) THEN Some("{}") ELSE @]

DefaultedService(obj) ==
    [obj EXCEPT
       !.ports = IF is_none(@) THEN @
                 ELSE Some([j \in 1..Len(unwrap(@)) |->
                        [unwrap(@)[j] EXCEPT
                           !.protocol = IF is_none(@) THEN Some("TCP") ELSE @]])]

DefaultedPvc(obj) ==
    [obj EXCEPT
       !.spec = IF is_none(@) THEN @
                ELSE Some([unwrap(@) EXCEPT
                       !.storage_class_name = IF is_none(@) THEN Some("standard") ELSE @])]

\* Server-side apply of a Deployment: the fields of the applied object
\* replace the stored ones; what other calls wrote (the config-hash
\* annotation, the restartedAt annotation of the template) and the status
\* are kept.
StoredDeployment(old, obj) ==
    DefaultedDeployment(obj) @@
    [config_hash |-> IF is_some(old) THEN unwrap(old).config_hash ELSE <<>>,
     restarted_at |-> IF is_some(old) THEN unwrap(old).restarted_at ELSE None,
     status |-> IF is_some(old) THEN unwrap(old).status ELSE EmptyStatus]

\* The fields of a stored Deployment that has_drifted reads.
DeploymentView(d) ==
    [f \in DOMAIN d \ {"config_hash", "restarted_at", "status"} |-> d[f]]

(***************************************************************************)
(* One reconcile: the calls it issues and their effect.                    *)
(***************************************************************************)
Call(op) == [op |-> op]
StatusCall(phase) == [op |-> "patch_status", phase |-> phase]

\* update_status
update_status(b, phase, time) ==
    [b EXCEPT !.status = Some([phase |-> phase, last_updated |-> time])]

\* Variant: what the apply path writes does not stay.
Effect_not_kept(st, c, spec, time) ==
    CASE c.op = "add_finalizer" ->
            [st EXCEPT !.bot = Some([unwrap(@) EXCEPT !.finalizer = TRUE])]
      [] c.op = "remove_finalizer" ->
            [st EXCEPT !.bot = None]
      [] OTHER -> st

\* The effect on the stored objects of one call that the API server accepts.
Effect(st, c, spec, time) ==
    CASE c.op = "patch_status" ->
            [st EXCEPT !.bot = Some(update_status(unwrap(@), c.phase, time))]
      [] c.op = "apply_config_map" ->
            [st EXCEPT !.config_map = Some(ConfigMap_from_hub(spec))]
      [] c.op = "apply_pvc" ->
            [st EXCEPT !.pvc = Some(DefaultedPvc(PersistentVolumeClaim_from_hub(spec)))]
      [] c.op = "delete_pvc" ->
            [st EXCEPT !.pvc = None]
      [] c.op = "apply_deployment" ->
            [st EXCEPT !.deployment = Some(StoredDeployment(@, Deployment_from_hub(spec)))]
      [] c.op = "patch_config_hash" ->
            [st EXCEPT !.deployment = Some([unwrap(@) EXCEPT !.config_hash = c.hash])]
      [] c.op = "rollout" ->
            [st EXCEPT !.deployment = Some([unwrap(@) EXCEPT !.restarted_at = Some(time)])]
      [] c.op = "apply_service" ->
            [st EXCEPT !.service = Some(DefaultedService(Service_from_hub(spec)))]
      [] c.op = "delete_service" ->
            [st EXCEPT !.service = None]
      [] c.op = "add_finalizer" ->
            [st EXCEPT !.bot = Some([unwrap(@) EXCEPT !.finalizer = TRUE])]
      [] c.op = "remove_finalizer" ->
            \* The Bot is being deleted: without the finalizer it is gone.
            [st EXCEPT !.bot = None]

RECURSIVE Exec(_, _, _, _)
Exec(st, calls, spec, time) ==
    IF calls = <<>> THEN st
    ELSE Exec(Effect(st, calls[1], spec, time), Tail(calls), spec, time)

\* The local variables of reconcile_bot after the fetches.  get_fail is the
\* set of fetches that return an error; .ok() turns each into None.
Fetched(kind, stored, get_fail) == IF kind \in get_fail THEN None ELSE stored

current_config_hash(d) == IF is_some(d) THEN unwrap(d).config_hash ELSE <<>>

\* Variant: the hash is taken of spec.config instead of the ConfigMap data.
incoming_config_hash_of_config(spec) == compute_object_hash(spec.config)

\* The Result of compute_object_hash.
Ok(x) == [ok |-> TRUE, value |-> x]
Err == [ok |-> FALSE]

\* Result::unwrap_or_default on a Result<String, _>: the empty string for Err.
result_unwrap_or_default(result) == IF result.ok THEN result.value ELSE <<>>

\* The data of a ConfigMap always serialise: the hash is computed.
incoming_config_hash(spec) ==
    result_unwrap_or_default(Ok(compute_object_hash(ConfigMap_from_hub(spec).data)))

NeedsConfigMap(cm, spec) ==
    is_none(cm) \/ ConfigMap_has_drifted(unwrap(cm), ConfigMap_from_hub(spec))

NeedsPvc(p, spec) ==
    is_none(p) \/ PersistentVolumeClaim_has_drifted(unwrap(p),
                                                     PersistentVolumeClaim_from_hub(spec))

NeedsDeployment(d, spec) ==
    is_none(d) \/ Deployment_has_drifted(DeploymentView(unwrap(d)),
                                         Deployment_from_hub(spec))

NeedsService(s, spec) ==
    is_none(s) \/ Service_has_drifted(unwrap(s), Service_from_hub(spec))

\* The status of the Deployment that reconcile_bot holds when it derives the
\* phase: the object returned by its apply when it applied, the fetched
\* object otherwise.
DeploymentStatusHeld(d, stored, spec) ==
    IF NeedsDeployment(d, spec)
    THEN IF is_some(stored) THEN unwrap(stored).status ELSE EmptyStatus
    ELSE unwrap(d).status

\* Variant: the status is patched in every reconcile.
NeedsStatus_always(b, phase) == TRUE

NeedsStatus(b, phase) == is_none(b.status) \/ phase # unwrap(b.status).phase

\* The steps of reconcile_bot: the calls each issues.
InitialStatusStep(b) ==
    IF is_none(b.status) THEN <<StatusCall("pending")>> ELSE <<>>

ConfigMapStep(cm, spec) ==
    IF NeedsConfigMap(cm, spec) THEN <<Call("apply_config_map")>> ELSE <<>>

PvcStep(p, spec) ==
    IF spec.pvc.enabled
    THEN IF NeedsPvc(p, spec) THEN <<Call("apply_pvc")>> ELSE <<>>
    ELSE IF is_some(p) THEN <<Call("delete_pvc")>> ELSE <<>>

DeploymentStep(d, spec) ==
    IF NeedsDeployment(d, spec) THEN <<Call("apply_deployment")>> ELSE <<>>

\* Variant: the rollout does not depend on the annotation being there.
ConfigHashStep_rollout_always(current, incoming) ==
    IF current # incoming
    THEN <<[op |-> "patch_config_hash", hash |-> incoming], Call("rollout")>>
    ELSE <<>>

ConfigHashStep(current, incoming) ==
    IF current # incoming
    THEN <<[op |-> "patch_config_hash", hash |-> incoming]>>
         \o (IF current # <<>> THEN <<Call("rollout")>> ELSE <<>>)
    ELSE <<>>

StatusStep(b, phase) ==
    IF NeedsStatus(b, phase) THEN <<StatusCall(phase)>> ELSE <<>>

\* Variant: a missing Service is not applied, only a drifted one.
ServiceStep_drift_only(s, spec) ==
    IF spec.api.enabled
    THEN IF is_some(s) /\ NeedsService(s, spec) THEN <<Call("apply_service")>> ELSE <<>>
    ELSE IF is_some(s) THEN <<Call("delete_service")>> ELSE <<>>

ServiceStep(s, spec) ==
    IF spec.api.enabled
    THEN IF NeedsService(s, spec) THEN <<Call("apply_service")>> ELSE <<>>
    ELSE IF is_some(s) THEN <<Call("delete_service")>> ELSE <<>>

\* Variant: the Deployment is applied before the ConfigMap.
reconcile_bot_deployment_first(b, get_fail) ==
    LET spec == b.spec
        cm == Fetched("config_map", config_map, get_fail)
        p == Fetched("pvc", pvc, get_fail)
        d == Fetched("deployment", deployment, get_fail)
        s == Fetched("service", service, get_fail)
        current == current_config_hash(d)
        incoming == incoming_config_hash(spec)
        phase == BotPhaseFrom(DeploymentStatusHeld(d, deployment, spec))
    IN  InitialStatusStep(b)
        \o DeploymentStep(d, spec)
        \o ConfigMapStep(cm, spec)
        \o PvcStep(p, spec)
        \o ConfigHashStep(current, incoming)
        \o StatusStep(b, phase)
        \o ServiceStep(s, spec)

\* reconcile_bot: the calls of the apply path, in the order of the code.
reconcile_bot(b, get_fail) ==
    LET spec == b.spec
        cm == Fetched("config_map", config_map, get_fail)
        p == Fetched("pvc", pvc, get_fail)
        d == Fetched("deployment", deployment, get_fail)
        s == Fetched("service", service, get_fail)
        current == current_config_hash(d)
        incoming == incoming_config_hash(spec)
        phase == BotPhaseFrom(DeploymentStatusHeld(d, deployment, spec))
    IN  InitialStatusStep(b)
        \o ConfigMapStep(cm, spec)
        \o PvcStep(p, spec)
        \o DeploymentStep(d, spec)
        \o ConfigHashStep(current, incoming)
        \o StatusStep(b, phase)
        \o ServiceStep(s, spec)

\* Variant: cleanup_bot also deletes the Service of the Bot.
cleanup_bot_delete_service ==
    <<StatusCall("deleting"), Call("delete_service"), Call("remove_finalizer")>>

\* Variant: cleanup_bot writes the phase of the apply path.
cleanup_bot_pending == <<StatusCall("pending"), Call("remove_finalizer")>>

\* Variant: the finalizer is left on the Bot.
cleanup_bot_keep_finalizer == <<StatusCall("deleting")>>

\* Variant: the finalizer is removed without the status patch.
cleanup_bot_no_status == <<Call("remove_finalizer")>>

\* cleanup_bot, followed by the removal of the finalizer that the finalizer
\* helper performs once cleanup_bot has returned Ok.
cleanup_bot == <<StatusCall("deleting"), Call("remove_finalizer")>>

(***************************************************************************)
(* State.                                                                  *)
(*   bot         the Bot as stored: finalizer, deletion timestamp, spec,   *)
(*               status; None when there is no Bot                         *)
(*   config_map, pvc, deployment, service                                  *)
(*               the dependents as stored; None when absent               *)
(*   stable      the latest reconcile took the apply path and returned Ok, *)
(*               and no actor has changed an object since                  *)
(*   last        what the reconcile that has just returned did and the     *)
(*               objects it started from; NoReconcile once the controller  *)
(*               has taken its result                                      *)
(*   probe       argument and result of a function applied on its own:     *)
(*               the phase derivation, the hash step, the projections      *)
(***************************************************************************)
NoReconcile ==
    [path |-> "none", ok |-> TRUE, calls |-> <<>>, requeue |-> None,
     after_stable |-> FALSE, get_fail |-> {}, before |-> None, phases |-> <<>>]

NoProbe == [status |-> EmptyStatus, phase |-> "unset"]

Kinds == {"config_map", "pvc", "deployment", "service"}

Preconditions == {"ok", "missing_namespace", "missing_owner_ref"}

\* The Deployment conditions that the Deployment controller reports.
ConditionLists ==
    {None,
     Some(<<Condition("Available", "False"), Condition("Progressing", "True")>>),
     Some(<<Condition("Available", "True"), Condition("Progressing", "True")>>),
     Some(<<Condition("Available", "True"), Condition("Progressing", "False")>>)}

Init ==
    /\ bot = None
    /\ config_map = None
    /\ pvc = None
    /\ deployment = None
    /\ service = None
    /\ stable = FALSE
    /\ last = NoReconcile
    /\ probe = NoProbe

\* The value of Utc::now(), whatever the time is.
UtcNow == "Utc::now()"

Idle == last.path = "none"

Ops(calls) == [i \in 1..Len(calls) |-> calls[i].op]

RECURSIVE Phases(_)
\* The phases of the status patches among the calls, in order.
Phases(calls) ==
    IF calls = <<>> THEN <<>>
    ELSE (IF calls[1].op = "patch_status" THEN <<calls[1].phase>> ELSE <<>>)
         \o Phases(Tail(calls))

\* Variant: every reconcile is requeued after 30 seconds.
Requeue_always(path, ok) == Some(REQUEUE_SECS)

\* error_policy, and the Action a reconcile returns on success.
Requeue(path, ok) ==
    IF ~ok THEN Some(REQUEUE_SECS)
    ELSE IF path = "apply" THEN Some(REQUEUE_SECS)
    ELSE None

\* The writes of the apply path in the order of the code; a reconcile issues
\* a subsequence of them.
ApplySteps ==
    <<"patch_status", "apply_config_map", "apply_pvc", "apply_deployment",
      "patch_config_hash", "rollout", "patch_status", "apply_service">>

\* The number of calls that fail in a reconcile: the fetches in get_fail and
\* the write number fail_at (none when 0), which aborts the reconcile.
Faults(get_fail, fail_at) == Cardinality(get_fail) + (IF fail_at = 0 THEN 0 ELSE 1)

\* BotController::reconcile: the preconditions, then the finalizer helper,
\* which adds the finalizer to a Bot that lacks it, runs reconcile_bot on a
\* Bot that has it, and runs cleanup_bot and removes the finalizer on a Bot
\* that is being deleted.
Reconcile(precondition, get_fail, fail_at) ==
    /\ Idle
    /\ is_some(bot)
    /\ \E b \in {unwrap(bot)} :
       \E path \in {CASE precondition # "ok" -> "precondition"
                      [] b.finalizer /\ ~b.deletion_timestamp -> "apply"
                      [] b.finalizer /\ b.deletion_timestamp -> "cleanup"
                      [] ~b.finalizer /\ ~b.deletion_timestamp -> "add_finalizer"
                      [] OTHER -> "done"} :
           /\ path # "apply" => get_fail = {}
           /\ precondition # "ok" => fail_at = 0
           /\ \E plan \in {CASE path = "apply" -> reconcile_bot(b, get_fail)
                             [] path = "cleanup" -> cleanup_bot
                             [] path = "add_finalizer" -> <<Call("add_finalizer")>>
                             [] OTHER -> <<>>} :
                  /\ fail_at <= Len(plan)
                  /\ \E ok \in {fail_at = 0 /\ precondition = "ok"},
                        issued \in {IF fail_at = 0 THEN plan ELSE SubSeq(plan, 1, fail_at)},
                        accepted \in {IF fail_at = 0 THEN plan
                                      ELSE SubSeq(plan, 1, fail_at - 1)} :
                     \E st \in {Exec([bot |-> bot, config_map |-> config_map, pvc |-> pvc,
                                      deployment |-> deployment, service |-> service],
                                     accepted, b.spec, UtcNow)} :
                         /\ bot' = st.bot
                         /\ config_map' = st.config_map
                         /\ pvc' = st.pvc
                         /\ deployment' = st.deployment
                         /\ service' = st.service
                         /\ last' = [path |-> path, ok |-> ok, calls |-> Ops(issued),
                                     requeue |-> Requeue(path, ok),
                                     after_stable |-> stable,
                                     get_fail |-> get_fail,
                                     before |-> Some([bot |-> b,
                                                      config_map |-> config_map,
                                                      pvc |-> pvc,
                                                      deployment |-> deployment,
                                                      service |-> service]),
                                     phases |-> Phases(issued)]
    /\ UNCHANGED <<stable, probe>>

\* The controller stream yields the result of the reconcile (main): Ok is
\* logged, Err goes through error_policy; either way the key is requeued as
\* the result says.
Reconciled ==
    /\ ~Idle
    /\ stable' = (last.path = "apply" /\ last.ok)
    /\ last' = NoReconcile
    /\ UNCHANGED <<bot, config_map, pvc, deployment, service, probe>>

(***************************************************************************)
(* The other actors.                                                       *)
(***************************************************************************)
\* The user creates the Bot.
CreateBot(config, pvc_enabled, api_enabled) ==
    /\ Idle
    /\ is_none(bot)
    /\ bot' = Some([finalizer |-> FALSE, deletion_timestamp |-> FALSE,
                    spec |-> BotSpec(config, pvc_enabled, api_enabled),
                    status |-> None])
    /\ stable' = FALSE
    /\ UNCHANGED <<config_map, pvc, deployment, service, last, probe>>

\* The user edits the specification of the Bot.
UpdateSpec(config, pvc_enabled, api_enabled) ==
    /\ Idle
    /\ is_some(bot)
    /\ unwrap(bot).spec # BotSpec(config, pvc_enabled, api_enabled)
    /\ bot' = Some([unwrap(bot) EXCEPT !.spec = BotSpec(config, pvc_enabled, api_enabled)])
    /\ stable' = FALSE
    /\ UNCHANGED <<config_map, pvc, deployment, service, last, probe>>

\* The user deletes the Bot: a Bot with a finalizer gets a deletion
\* timestamp, a Bot without one is removed.
DeleteBot ==
    /\ Idle
    /\ is_some(bot)
    /\ ~unwrap(bot).deletion_timestamp
    /\ bot' = IF unwrap(bot).finalizer
              THEN Some([unwrap(bot) EXCEPT !.deletion_timestamp = TRUE])
              ELSE None
    /\ stable' = FALSE
    /\ UNCHANGED <<config_map, pvc, deployment, service, last, probe>>

\* The garbage collector removes the dependents of a Bot that is gone.
GarbageCollect ==
    /\ Idle
    /\ is_none(bot)
    /\ \E o \in {config_map, pvc, deployment, service} : is_some(o)
    /\ config_map' = None
    /\ pvc' = None
    /\ deployment' = None
    /\ service' = None
    /\ stable' = FALSE
    /\ UNCHANGED <<bot, last, probe>>

\* The Deployment controller reports the state of the rollout.
DeploymentController(conditions) ==
    /\ Idle
    /\ is_some(deployment)
    /\ unwrap(deployment).status.conditions # conditions
    /\ deployment' = Some([unwrap(deployment) EXCEPT !.status.conditions = conditions])
    /\ stable' = FALSE
    /\ UNCHANGED <<bot, config_map, pvc, service, last, probe>>

\* Another actor scales the Deployment.
ScaleDeployment(replicas) ==
    /\ Idle
    /\ is_some(deployment)
    /\ unwrap(deployment).replicas # Some(replicas)
    /\ deployment' = Some([unwrap(deployment) EXCEPT !.replicas = Some(replicas)])
    /\ stable' = FALSE
    /\ UNCHANGED <<bot, config_map, pvc, service, last, probe>>

\* Another actor rewrites the data of the ConfigMap.
EditConfigMap ==
    /\ Idle
    /\ is_some(config_map)
    /\ unwrap(unwrap(config_map).data)["config.json"] # <<"edited">>
    /\ config_map' = Some([unwrap(config_map) EXCEPT
                             !.data = Some([unwrap(@) EXCEPT !["config.json"] = <<"edited">>])])
    /\ stable' = FALSE
    /\ UNCHANGED <<bot, pvc, deployment, service, last, probe>>

\* Another actor deletes a dependent.
DeleteDependent(kind) ==
    /\ Idle
    /\ CASE kind = "config_map" -> is_some(config_map)
         [] kind = "pvc" -> is_some(pvc)
         [] kind = "deployment" -> is_some(deployment)
         [] kind = "service" -> is_some(service)
    /\ config_map' = IF kind = "config_map" THEN None ELSE config_map
    /\ pvc' = IF kind = "pvc" THEN None ELSE pvc
    /\ deployment' = IF kind = "deployment" THEN None ELSE deployment
    /\ service' = IF kind = "service" THEN None ELSE service
    /\ stable' = FALSE
    /\ UNCHANGED <<bot, last, probe>>

\* Another actor overwrites a label of the Deployment.
RelabelDeployment ==
    /\ Idle
    /\ is_some(deployment)
    /\ is_some(unwrap(deployment).labels)
    /\ unwrap(unwrap(deployment).labels)["app.kubernetes.io/part-of"] # "other"
    /\ deployment' = Some([unwrap(deployment) EXCEPT
                             !.labels = Some([unwrap(@) EXCEPT
                                                !["app.kubernetes.io/part-of"] = "other"])])
    /\ stable' = FALSE
    /\ UNCHANGED <<bot, config_map, pvc, service, last, probe>>

\* A reconcile whose calls all succeed, or that stops on a precondition.
ReconcileOk == \E precondition \in Preconditions : Reconcile(precondition, {}, 0)

\* A reconcile in which at least one and at most MaxFaults calls fail.
ReconcileFaulty ==
    \E get_fail \in SUBSET Kinds, fail_at \in 0..Len(ApplySteps) :
       /\ Faults(get_fail, fail_at) \in 1..MaxFaults
       /\ Reconcile("ok", get_fail, fail_at)

\* The life of a Bot whose configuration the user edits: creation, edits of
\* spec.config, the rollout state reported by the Deployment controller,
\* other actors that rewrite the ConfigMap or delete the Deployment,
\* deletion and garbage collection; pvc and api keep their defaults.
Next ==
    \/ ReconcileOk
    \/ ReconcileFaulty
    \/ Reconciled
    \/ \E config \in Configs : CreateBot(config, TRUE, TRUE)
    \/ \E config \in Configs : UpdateSpec(config, TRUE, TRUE)
    \/ DeleteBot
    \/ GarbageCollect
    \/ \E conditions \in ConditionLists : DeploymentController(conditions)
    \/ EditConfigMap
    \/ DeleteDependent("deployment")

Spec == Init /\ [][Next]_vars

\* A Bot whose optional dependents the user switches on and off while other
\* actors scale the Deployment and delete dependents; spec.config stays
\* unset and the Deployment reports no conditions.
NextDrift ==
    \/ ReconcileOk
    \/ ReconcileFaulty
    \/ Reconciled
    \/ \E pvc_enabled \in BOOLEAN, api_enabled \in BOOLEAN :
          CreateBot(None, pvc_enabled, api_enabled)
    \/ \E pvc_enabled \in BOOLEAN, api_enabled \in BOOLEAN :
          UpdateSpec(None, pvc_enabled, api_enabled)
    \/ \E replicas \in {1, 2} : ScaleDeployment(replicas)
    \/ \E kind \in Kinds : DeleteDependent(kind)

SpecDrift == Init /\ [][NextDrift]_vars

\* A reconcile in which the preconditions hold and every call succeeds.
ReconcileClean == Reconcile("ok", {}, 0)

\* The user creates a Bot once the dependents of an earlier Bot of that name
\* have been collected.
CreateFreshBot ==
    /\ \A o \in {config_map, pvc, deployment, service} : is_none(o)
    /\ CreateBot(None, TRUE, TRUE)

\* The life of a Bot under a scheduler that keeps reconciling it: creation,
\* reconciles with and without failing calls, other actors that delete
\* dependents or relabel the Deployment, deletion and garbage collection.
NextLive ==
    \/ ReconcileClean
    \/ ReconcileFaulty
    \/ Reconciled
    \/ CreateFreshBot
    \/ DeleteBot
    \/ GarbageCollect
    \/ \E kind \in Kinds : DeleteDependent(kind)
    \/ RelabelDeployment

\* Fairness: the controller takes the result of every reconcile (the stream
\* in main is polled to its end); a Bot key is reconciled again and again
\* (watch events, and the requeue of error_policy and of the apply path) and
\* among these reconciles some have all their calls succeed; the garbage
\* collector runs.
SpecLive ==
    /\ Init
    /\ [][NextLive]_vars
    /\ WF_vars(Reconciled)
    /\ SF_vars(ReconcileClean)
    /\ WF_vars(GarbageCollect)

\* The label maps a user gives: none, a label of the user's own, or one of
\* the identifying keys with another value.
UserLabels ==
    {None, Some("team" :> "quant"), Some("freqtrade.io/bot-name" :> "other")}

BotServicePort(name, port, target_port) ==
    [name |-> name, port |-> port, target_port |-> target_port]

\* The lists of spec.service.ports a user gives.
UserPorts ==
    {<<>>,
     <<BotServicePort("metrics", 9100, "metrics")>>,
     <<BotServicePort("api", 9090, "api")>>,
     <<BotServicePort("api", 9090, "api"), BotServicePort("metrics", 9100, "metrics")>>}

\* A Bot with the given labels for its Deployment, PVC and Service and the
\* given Service ports, and defaults elsewhere.
LabelledSpec(labels, ports) ==
    [BotSpec(None, TRUE, TRUE) EXCEPT
       !.deployment.labels = labels,
       !.pvc.labels = labels,
       !.service.labels = labels,
       !.service.ports = ports]

\* The user creates a Bot with labels and Service ports.
CreateLabelledBot(labels, ports) ==
    /\ Idle
    /\ is_none(bot)
    /\ bot' = Some([finalizer |-> FALSE, deletion_timestamp |-> FALSE,
                    spec |-> LabelledSpec(labels, ports),
                    status |-> None])
    /\ stable' = FALSE
    /\ UNCHANGED <<config_map, pvc, deployment, service, last, probe>>

\* The user edits the labels and the Service ports of the Bot.
UpdateLabels(labels, ports) ==
    /\ Idle
    /\ is_some(bot)
    /\ unwrap(bot).spec # LabelledSpec(labels, ports)
    /\ bot' = Some([unwrap(bot) EXCEPT !.spec = LabelledSpec(labels, ports)])
    /\ stable' = FALSE
    /\ UNCHANGED <<config_map, pvc, deployment, service, last, probe>>

\* A Bot whose labels and Service ports the user edits; no other actor
\* writes.
NextConverge ==
    \/ ReconcileOk
    \/ ReconcileFaulty
    \/ Reconciled
    \/ \E labels \in UserLabels, ports \in UserPorts : CreateLabelledBot(labels, ports)
    \/ \E labels \in UserLabels, ports \in UserPorts : UpdateLabels(labels, ports)

SpecConverge == Init /\ [][NextConverge]_vars

(***************************************************************************)
(* The configuration hash on its own: the hash step of reconcile_bot over   *)
(* every configuration of at most MaxEntries entries per object, every      *)
(* annotation the Deployment may carry, and either Result of the hash.      *)
(***************************************************************************)
Leaves == {Str("v1"), Str("v2")}
TopKeys == {"key", "nested"}
NestedKeys == {"inner", "key", "model"}

RECURSIVE EntryLists(_, _, _)
\* The lists of at most n entries with distinct keys of K and values of V.
EntryLists(K, V, n) ==
    IF n = 0 THEN {<<>>}
    ELSE LET shorter == EntryLists(K, V, n - 1)
         IN  shorter \cup
             {Append(t[1], Entry(t[2], t[3])) :
                t \in {u \in shorter \X K \X V :
                         \A i \in 1..Len(u[1]) : u[1][i].key # u[2]}}

\* spec.config as the user writes it: unset, or an object whose entry key is
\* a string and whose entry nested is an object of strings.
ConfigTexts ==
    {None} \cup
    {Some(t) : t \in
        {u \in EntryLists(TopKeys,
                          Leaves \cup {Obj(e) : e \in EntryLists(NestedKeys, Leaves, MaxEntries)},
                          MaxEntries) :
           \A i \in 1..Len(u) : (u[i].key = "key") = IsStr(u[i].value)}}

\* A configuration that is none of ConfigTexts.
OtherText == Some(<<Entry("key", Str("other"))>>)

\* BotSpec.config as deserialised from the text.
deserialize_config(text) ==
    IF is_none(text) THEN None ELSE Some(from_json(unwrap(text)))

SpecOf(text) == BotSpec(deserialize_config(text), TRUE, TRUE)

InitHash ==
    /\ bot = None
    /\ config_map = None
    /\ pvc = None
    /\ deployment = None
    /\ service = None
    /\ stable = FALSE
    /\ last = NoReconcile
    /\ \E text \in ConfigTexts :
       \E current \in {<<>>, incoming_config_hash(SpecOf(text)),
                       incoming_config_hash(SpecOf(OtherText))} :
          probe = [text |-> text, current |-> current, failed |-> FALSE,
                   incoming |-> <<"unset">>, calls |-> <<>>, done |-> FALSE]

\* The hash step of reconcile_bot for a Bot with the configuration
\* probe.text and a Deployment whose annotation is probe.current; failed
\* says that compute_object_hash returns Err.
HashConfig(failed) ==
    /\ ~probe.done
    /\ LET spec == SpecOf(probe.text)
           result == IF failed THEN Err
                     ELSE Ok(compute_object_hash(ConfigMap_from_hub(spec).data))
           incoming == result_unwrap_or_default(result)
       IN  probe' = [probe EXCEPT !.failed = failed,
                                  !.incoming = incoming,
                                  !.calls = Ops(ConfigHashStep(probe.current, incoming)),
                                  !.done = TRUE]
    /\ UNCHANGED <<bot, config_map, pvc, deployment, service, stable, last>>

NextHash == \E failed \in BOOLEAN : HashConfig(failed)

SpecHash == InitHash /\ [][NextHash]_vars

(***************************************************************************)
(* The projections of the Deployment and of the Service on their own, over  *)
(* the label maps and the port lists a user may give.                       *)
(***************************************************************************)
LabelKeys ==
    {"team", "freqtrade.io/bot-name", "app.kubernetes.io/name",
     "app.kubernetes.io/instance"}

\* Every map from some of LabelKeys to the values other and quant.
LabelMaps ==
    {None} \cup
    {Some(m) : m \in UNION {[K -> {"other", "quant"}] : K \in SUBSET LabelKeys}}

ApiPorts == {DEFAULT_API_PORT, 9090}

\* spec.image.pull_policy and spec.pvc.storage_class as a user gives them.
PullPolicies == {None, Some("Always")}
StorageClasses == {None, Some("fast")}

InitProject ==
    /\ bot = None
    /\ config_map = None
    /\ pvc = None
    /\ deployment = None
    /\ service = None
    /\ stable = FALSE
    /\ last = NoReconcile
    /\ \E labels \in LabelMaps, ports \in UserPorts,
          api_enabled \in BOOLEAN, api_port \in ApiPorts,
          pull_policy \in PullPolicies, storage_class \in StorageClasses :
          probe = [spec |-> [LabelledSpec(labels, ports) EXCEPT
                               !.api.enabled = api_enabled,
                               !.api.port = api_port,
                               !.image.pull_policy = pull_policy,
                               !.pvc.storage_class = storage_class],
                   config_map |-> None, pvc |-> None,
                   deployment |-> None, service |-> None,
                   self_drift |-> None, done |-> FALSE]

\* The four from_hub projections of the Bot.
Project ==
    /\ ~probe.done
    /\ probe' = [probe EXCEPT !.config_map = Some(ConfigMap_from_hub(probe.spec)),
                              !.pvc = Some(PersistentVolumeClaim_from_hub(probe.spec)),
                              !.deployment = Some(Deployment_from_hub(probe.spec)),
                              !.service = Some(Service_from_hub(probe.spec)),
                              !.done = TRUE]
    /\ UNCHANGED <<bot, config_map, pvc, deployment, service, stable, last>>

\* has_drifted of each projected object against itself.
DriftOfSelf ==
    /\ probe.done
    /\ is_none(probe.self_drift)
    /\ probe' = [probe EXCEPT !.self_drift = Some(
          [config_map |-> ConfigMap_has_drifted(unwrap(probe.config_map),
                                                unwrap(probe.config_map)),
           pvc |-> PersistentVolumeClaim_has_drifted(unwrap(probe.pvc), unwrap(probe.pvc)),
           deployment |-> Deployment_has_drifted(unwrap(probe.deployment),
                                                 unwrap(probe.deployment)),
           service |-> Service_has_drifted(unwrap(probe.service),
                                           unwrap(probe.service))])]
    /\ UNCHANGED <<bot, config_map, pvc, deployment, service, stable, last>>

NextProject ==
    \/ Project
    \/ DriftOfSelf

SpecProject == InitProject /\ [][NextProject]_vars

(***************************************************************************)
(* The phase derivation on its own, over every condition list of at most   *)
(* MaxConds conditions.                                                    *)
(***************************************************************************)
ConditionTypes == {"Available", "Progressing", "ReplicaFailure"}
ConditionStatuses == {"True", "False", "Unknown"}

Conditions == {Condition(t, s) : t \in ConditionTypes, s \in ConditionStatuses}

RECURSIVE SeqsUpTo(_, _)
\* The sequences over S of length at most n.
SeqsUpTo(S, n) ==
    IF n = 0 THEN {<<>>}
    ELSE LET shorter == SeqsUpTo(S, n - 1)
         IN  shorter \cup {Append(q, x) : q \in shorter, x \in S}

DeploymentStatuses ==
    {[conditions |-> None]}
    \cup {[conditions |-> Some(cs)] : cs \in SeqsUpTo(Conditions, MaxConds)}

InitPhase ==
    /\ bot = None
    /\ config_map = None
    /\ pvc = None
    /\ deployment = None
    /\ service = None
    /\ stable = FALSE
    /\ last = NoReconcile
    /\ \E status \in DeploymentStatuses : probe = [status |-> status, phase |-> "unset"]

\* BotPhase::from(status).to_string()
DerivePhase ==
    /\ probe.phase = "unset"
    /\ probe' = [probe EXCEPT !.phase = BotPhaseFrom(probe.status)]
    /\ UNCHANGED <<bot, config_map, pvc, deployment, service, stable, last>>

NextPhase == DerivePhase

SpecPhase == InitPhase /\ [][NextPhase]_vars

(***************************************************************************)
(* The validating webhook on its own: the endpoint of                      *)
(* ft-operator-webhook applied to one admission review.  A JSON value is a *)
(* tagged record; a dotted key and an apiVersion are sequences of tokens   *)
(* in which "." and "/" are the separators.                                *)
(***************************************************************************)
Null == [null |-> TRUE]
Bool(b) == [bool |-> b]
Arr(s) == [arr |-> s]
IsObj(v) == "obj" \in DOMAIN v

\* serde_json::Value::get with a string index: only an object has members.
Value_get(v, part) ==
    IF IsObj(v) /\ part \in DOMAIN v.obj THEN Some(v.obj[part]) ELSE None

RECURSIVE split(_, _)
\* str::split: the pieces between the separators, each a token here.
split(s, sep) ==
    IF s = <<>> THEN <<>>
    ELSE IF Head(s) = sep THEN split(Tail(s), sep)
    ELSE <<Head(s)>> \o split(Tail(s), sep)

RECURSIVE walk(_, _)
walk(current_value, parts) ==
    IF parts = <<>> THEN TRUE
    ELSE LET next_value == Value_get(current_value, Head(parts))
         IN  IF is_some(next_value) THEN walk(unwrap(next_value), Tail(parts))
             ELSE FALSE

\* Variant: only the first part of the key is looked up.
check_key_exists_first_part(payload, key) ==
    is_some(Value_get(payload, Head(split(key, "."))))

check_key_exists(payload, key) == walk(payload, split(key, "."))

RESERVED_CONFIG_KEYS ==
    << <<"config", ".", "add_config_files">>,
       <<"config", ".", "recursive_strategy_search">>,
       <<"config", ".", "strategy_path">>,
       <<"config", ".", "strategy">>,
       <<"config", ".", "bot_name">>,
       <<"config", ".", "db_url">>,
       <<"config", ".", "api_server", ".", "enabled">>,
       <<"config", ".", "api_server", ".", "listen_ip_address">>,
       <<"config", ".", "api_server", ".", "listen_port">>,
       <<"config", ".", "api_server", ".", "jwt_secret_key">>,
       <<"config", ".", "api_server", ".", "username">>,
       <<"config", ".", "api_server", ".", "password">>,
       <<"config", ".", "api_server", ".", "ws_token">>,
       <<"config", ".", "telegram", ".", "token">>,
       <<"config", ".", "telegram", ".", "chat_id">>,
       <<"config", ".", "exchange", ".", "name">>,
       <<"config", ".", "exchange", ".", "key">>,
       <<"config", ".", "exchange", ".", "secret">>,
       <<"config", ".", "exchange", ".", "password">>,
       <<"config", ".", "freqai", ".", "enabled">> >>

RESERVED_ENV_VARS ==
    << <<"FREQTRADE__STRATEGY">>,
       <<"FREQTRADE__STRATEGY_PATH">>,
       <<"FREQTRADE__DB_URL">>,
       <<"FREQTRADE__BOT_NAME">>,
       <<"FREQTRADE__API_SERVER__ENABLED">>,
       <<"FREQTRADE__API_SERVER__LISTEN_IP_ADDRESS">>,
       <<"FREQTRADE__API_SERVER__LISTEN_PORT">>,
       <<"FREQTRADE__API_SERVER__USERNAME">>,
       <<"FREQTRADE__API_SERVER__PASSWORD">>,
       <<"FREQTRADE__API_SERVER__JWT_SECRET_KEY">>,
       <<"FREQTRADE__API_SERVER__WS_TOKEN">>,
       <<"FREQTRADE__EXCHANGE__NAME">>,
       <<"FREQTRADE__EXCHANGE__KEY">>,
       <<"FREQTRADE__EXCHANGE__SECRET">>,
       <<"FREQTRADE__EXCHANGE__PASSWORD">>,
       <<"FREQTRADE__EXCHANGE__UID">>,
       <<"FREQTRADE__TELEGRAM__TOKEN">>,
       <<"FREQTRADE__TELEGRAM__CHAT_ID">> >>

\* AdmissionError and its Display.
InvalidKind(kind, expected) == <<"invalid kind", kind, "expected", expected>>
InvalidVersion(version, kind) == <<"invalid version", version, "for", kind>>
ValidationError(what, key) == <<"validation error", what, key, "is reserved">>

AdmissionOk == [ok |-> TRUE]
AdmissionErr(e) == [ok |-> FALSE, error |-> e]

RECURSIVE first_reserved(_, _, _)
\* One of the two loops of validate_bot_v1alpha1: the first key of the list
\* that exists in the spec.
first_reserved(spec, keys, what) ==
    IF keys = <<>> THEN None
    ELSE IF check_key_exists(spec, Head(keys))
         THEN Some(ValidationError(what, Head(keys)))
         ELSE first_reserved(spec, Tail(keys), what)

validate_bot_v1alpha1(spec) ==
    LET config == first_reserved(spec, RESERVED_CONFIG_KEYS, "config key")
        env == first_reserved(spec, RESERVED_ENV_VARS, "env var")
    IN  IF is_some(config) THEN AdmissionErr(unwrap(config))
        ELSE IF is_some(env) THEN AdmissionErr(unwrap(env))
        ELSE AdmissionOk

\* A call that panics returns this in place of its value.
Panic == [panic |-> TRUE]
Panicked(r) == "panic" \in DOMAIN r

\* Variant: the version is examined before the kind.
validate_bot_crd_version_first(payload) ==
    IF is_none(payload.types) THEN Panic
    ELSE LET payload_types == unwrap(payload.types)
             parts == split(payload_types.api_version, "/")
             version == IF parts = <<>> THEN "" ELSE parts[Len(parts)]
             json_spec == IF "spec" \in DOMAIN payload.data
                          THEN payload.data["spec"] ELSE Null
         IN  IF version # "v1alpha1"
             THEN AdmissionErr(InvalidVersion(version, "Bot"))
             ELSE IF payload_types.kind # "Bot"
             THEN AdmissionErr(InvalidKind(payload_types.kind, "Bot"))
             ELSE validate_bot_v1alpha1(json_spec)

validate_bot_crd(payload) ==
    IF is_none(payload.types) THEN Panic
    ELSE LET payload_types == unwrap(payload.types)
             parts == split(payload_types.api_version, "/")
             version == IF parts = <<>> THEN "" ELSE parts[Len(parts)]
             json_spec == IF "spec" \in DOMAIN payload.data
                          THEN payload.data["spec"] ELSE Null
         IN  IF payload_types.kind # "Bot"
             THEN AdmissionErr(InvalidKind(payload_types.kind, "Bot"))
             ELSE IF version = "v1alpha1"
             THEN validate_bot_v1alpha1(json_spec)
             ELSE AdmissionErr(InvalidVersion(version, "Bot"))

\* kube::core::admission::AdmissionResponse as the endpoint builds it.
AdmissionResponse_invalid(reason) ==
    [uid |-> "", allowed |-> FALSE, message |-> reason]

\* Variant: the response does not take the UID of the request.
AdmissionResponse_from_no_uid(request) ==
    [uid |-> "", allowed |-> TRUE, message |-> <<>>]

AdmissionResponse_from(request) ==
    [uid |-> request.uid, allowed |-> TRUE, message |-> <<>>]

deny(response, reason) ==
    [response EXCEPT !.allowed = FALSE, !.message = reason]

\* The handler of POST /admission/freqtrade.io/bot/validate: the review it
\* answers with, or Panic.
validate_bot_crd_endpoint(payload) ==
    IF is_none(payload.request)
    THEN AdmissionResponse_invalid(<<"request missing in AdmissionReview">>)
    ELSE LET request == unwrap(payload.request)
             response == AdmissionResponse_from(request)
         IN  IF is_none(request.object) THEN Panic
             ELSE LET result == validate_bot_crd(unwrap(request.object))
                  IN  IF Panicked(result) THEN Panic
                      ELSE IF result.ok THEN response
                      ELSE deny(response, result.error)

\* The names the operator gives the main container's environment, in order.
InjectedEnvNames ==
    <<"FREQTRADE__STRATEGY", "FREQTRADE__STRATEGY_PATH",
      "FREQTRADE__FREQAIMODEL_PATH", "FREQTRADE__DB_URL", "FREQTRADE__BOT_NAME",
      "FREQTRADE__API_SERVER__ENABLED",
      "FREQTRADE__API_SERVER__LISTEN_IP_ADDRESS",
      "FREQTRADE__API_SERVER__LISTEN_PORT", "FREQTRADE__EXCHANGE__NAME",
      "FREQTRADE__TELEGRAM__CHAT_ID", "FREQTRADE__API_SERVER__USERNAME",
      "FREQTRADE__API_SERVER__PASSWORD", "FREQTRADE__API_SERVER__WS_TOKEN",
      "FREQTRADE__API_SERVER__JWT_SECRET_KEY", "FREQTRADE__TELEGRAM__TOKEN",
      "FREQTRADE__EXCHANGE__KEY", "FREQTRADE__EXCHANGE__SECRET",
      "FREQTRADE__EXCHANGE__PASSWORD", "FREQTRADE__EXCHANGE__UID">>

\* spec.deployment.env of the admitted object as the controller reads it:
\* the names of its entries, none when the field is absent.
deployment_env(spec) ==
    LET user == Value_get(spec, "deployment")
        env == IF is_some(user) THEN Value_get(unwrap(user), "env")
               ELSE None
    IN  IF is_some(env) /\ "arr" \in DOMAIN unwrap(env)
        THEN [i \in 1..Len(unwrap(env).arr) |-> unwrap(env).arr[i].obj["name"].str]
        ELSE <<>>

\* The env of the main container in Deployment::from_hub, by name: the
\* operator's variables chained with the user's.
container_env_names(spec) == InjectedEnvNames \o deployment_env(spec)

\* The inputs.
EnvVar(name, value) == Obj(("name" :> Str(name)) @@ ("value" :> Str(value)))

AdmitConfigs ==
    {None,
     Some(Obj("stake_currency" :> Str("USDT"))),
     Some(Obj("strategy" :> Str("Sample"))),
     Some(Obj("api_server" :> Obj("enabled" :> Bool(TRUE)))),
     Some(Obj("api_server" :> Obj("verbosity" :> Str("info")))),
     Some(Obj("api_server" :> Str("enabled"))),
     Some(Obj("api_server.enabled" :> Bool(TRUE))),
     Some(Obj("exchange" :> Obj("key" :> Null))),
     Some(Obj(("exchange" :> Obj("name" :> Str("binance")))
              @@ ("strategy" :> Str("Sample")))),
     Some(Obj("freqai" :> Obj("enabled" :> Bool(FALSE)))),
     Some(Arr(<<Str("strategy")>>))}

AdmitEnvs ==
    {None,
     Some(<<>>),
     Some(<<EnvVar("LOG_LEVEL", "debug")>>),
     Some(<<EnvVar("FREQTRADE__STRATEGY", "Other")>>),
     Some(<<EnvVar("LOG_LEVEL", "debug"),
            EnvVar("FREQTRADE__API_SERVER__PASSWORD", "hunter2")>>)}

\* A spec of the object under review.  top_level adds a member of the spec
\* itself that is named like a reserved variable.
AdmitSpec(config, env, top_level) ==
    Obj((IF is_some(config) THEN "config" :> unwrap(config) ELSE <<>>)
        @@ (IF is_some(env) THEN "deployment" :> Obj("env" :> Arr(unwrap(env)))
            ELSE <<>>)
        @@ (IF top_level THEN "FREQTRADE__DB_URL" :> Str("sqlite://") ELSE <<>>))

AdmitSpecs ==
    {AdmitSpec(config, env, top_level) :
        config \in AdmitConfigs, env \in AdmitEnvs, top_level \in BOOLEAN}

AdmitKinds == {"Bot", "Pod"}

ApiVersions ==
    {<<"freqtrade.io", "/", "v1alpha1">>, <<"freqtrade.io", "/", "v1beta1">>,
     <<"example.com", "/", "v1alpha1">>, <<"v1alpha1">>}

TypeMetas ==
    {None} \cup {Some([kind |-> k, api_version |-> v]) :
                    k \in AdmitKinds, v \in ApiVersions}

\* DynamicObject: optional type metadata and the remaining members.
DynamicObjects ==
    {[types |-> t, data |-> <<>>] : t \in TypeMetas}
    \cup {[types |-> t, data |-> "spec" :> s] : t \in TypeMetas, s \in AdmitSpecs}

Uids == {"uid-1", "uid-2"}

AdmissionRequests ==
    {[uid |-> u, operation |-> "DELETE", object |-> None] : u \in Uids}
    \cup {[uid |-> u, operation |-> op, object |-> Some(o)] :
             u \in Uids, op \in {"CREATE", "UPDATE"}, o \in DynamicObjects}

AdmissionReviews ==
    {[request |-> None]} \cup {[request |-> Some(r)] : r \in AdmissionRequests}

InitAdmit ==
    /\ bot = None
    /\ config_map = None
    /\ pvc = None
    /\ deployment = None
    /\ service = None
    /\ stable = FALSE
    /\ last = NoReconcile
    /\ \E review \in AdmissionReviews :
          probe = [review |-> review, response |-> None, done |-> FALSE]

\* One POST to the validate endpoint.
Admit ==
    /\ ~probe.done
    /\ probe' = [probe EXCEPT
                   !.response = Some(validate_bot_crd_endpoint(probe.review)),
                   !.done = TRUE]
    /\ UNCHANGED <<bot, config_map, pvc, deployment, service, stable, last>>

NextAdmit == Admit

SpecAdmit == InitAdmit /\ [][NextAdmit]_vars

(***************************************************************************)
(* The operator and Secrets: the watches the controller opens, the calls a *)
(* reconcile issues, and the variables that Deployment::from_hub derives   *)
(* from spec.secrets, over every choice of three of its fields and either  *)
(* content of the Secret they refer to.                                    *)
(***************************************************************************)
SecretValue(value) == [value |-> value]
SecretKeyRef(name, key) == [secret_key_ref |-> [name |-> name, key |-> key]]

SecretItems ==
    {None, Some(SecretValue("plain")), Some(SecretKeyRef("credentials", "entry"))}

create_secret_env_var(name, secret_item) ==
    [name |-> name,
     value |-> IF is_some(secret_item) /\ "value" \in DOMAIN unwrap(secret_item)
               THEN Some(unwrap(secret_item).value) ELSE None,
     value_from |-> IF is_some(secret_item)
                       /\ "secret_key_ref" \in DOMAIN unwrap(secret_item)
                    THEN Some([secret_key_ref |->
                                 [name |-> unwrap(secret_item).secret_key_ref.name,
                                  key |-> unwrap(secret_item).secret_key_ref.key]])
                    ELSE None]

\* spec.secrets: the api group with its username and password, the exchange
\* group with its key.
BotSecretsSet ==
    {[api |-> a, exchange |-> e] :
        a \in {None} \cup {Some([username |-> u, password |-> p]) :
                              u \in SecretItems, p \in SecretItems},
        e \in {None} \cup {Some([key |-> k]) : k \in SecretItems}}

\* The secret-based variables of the main container.
secret_env(secrets) ==
    <<IF is_some(secrets.api)
      THEN create_secret_env_var("FREQTRADE__API_SERVER__USERNAME",
                                 unwrap(secrets.api).username)
      ELSE create_env_var("FREQTRADE__API_SERVER__USERNAME", None) @@ [value_from |-> None],
      IF is_some(secrets.api)
      THEN create_secret_env_var("FREQTRADE__API_SERVER__PASSWORD",
                                 unwrap(secrets.api).password)
      ELSE create_env_var("FREQTRADE__API_SERVER__PASSWORD", None) @@ [value_from |-> None],
      IF is_some(secrets.exchange)
      THEN create_secret_env_var("FREQTRADE__EXCHANGE__KEY",
                                 unwrap(secrets.exchange).key)
      ELSE create_env_var("FREQTRADE__EXCHANGE__KEY", None) @@ [value_from |-> None]>>

Operation(verb, kind) == [verb |-> verb, kind |-> kind]

\* The kinds that create_controller watches: the Bot and what .owns names.
WatchedKinds ==
    {"Bot", "Deployment", "Service", "ConfigMap", "PersistentVolumeClaim", "Secret"}

\* The requests of a watcher on one kind.
WatchOperations(kind) == {Operation("list", kind), Operation("watch", kind)}

\* The requests that reconcile, reconcile_bot and cleanup_bot can issue.
ReconcileOperations ==
    {Operation("get", k) :
        k \in {"ConfigMap", "PersistentVolumeClaim", "Deployment", "Service"}}
    \cup {Operation("patch", k) :
        k \in {"Bot", "ConfigMap", "PersistentVolumeClaim", "Deployment", "Service"}}
    \cup {Operation("delete", k) : k \in {"PersistentVolumeClaim", "Service"}}

SecretContents == {"alpha", "omega"}

InitSecrets ==
    /\ bot = None
    /\ config_map = None
    /\ pvc = None
    /\ deployment = None
    /\ service = None
    /\ stable = FALSE
    /\ last = NoReconcile
    /\ \E secrets \in BotSecretsSet, content \in SecretContents :
          probe = [secrets |-> secrets, content |-> content,
                   operations |-> {}, received |-> {}, env |-> None]

\* create_controller, run: a watcher per kind, each delivering the objects
\* of its kind in full.
create_controller ==
    /\ \A k \in WatchedKinds : WatchOperations(k) \cap probe.operations = {}
    /\ probe' = [probe EXCEPT
          !.operations = @ \cup UNION {WatchOperations(k) : k \in WatchedKinds},
          !.received = @ \cup (IF "Secret" \in WatchedKinds
                               THEN {probe.content} ELSE {})]
    /\ UNCHANGED <<bot, config_map, pvc, deployment, service, stable, last>>

\* A reconcile of the Bot: its requests and the variables it projects.
ReconcileSecrets ==
    /\ is_none(probe.env)
    /\ probe' = [probe EXCEPT !.operations = @ \cup ReconcileOperations,
                              !.env = Some(secret_env(probe.secrets))]
    /\ UNCHANGED <<bot, config_map, pvc, deployment, service, stable, last>>

NextSecrets ==
    \/ create_controller
    \/ ReconcileSecrets

SpecSecrets == InitSecrets /\ [][NextSecrets]_vars

(***************************************************************************)
(* The process and its signals: the webhook server or the controller, the  *)
(* handlers or reconciles it has in flight, and a SIGINT or SIGTERM.       *)
(***************************************************************************)
MaxInFlight == 3
MaxHandled == 4

Commands == {"webhook", "controller"}

Signals == {"SIGINT", "SIGTERM"}

\* server::shutdown_signal once its signal has arrived: the handle stops the
\* listener and gives the connections ten seconds.
shutdown_signal(p, sig) ==
    [p EXCEPT !.signal = sig, !.accepting = FALSE, !.grace = Some(10)]

\* A signal that no task of the process awaits: the default disposition
\* ends the process at once, except for the first process of a container,
\* to which the kernel does not deliver it.
default_disposition(p, sig) ==
    IF p.init_process THEN [p EXCEPT !.signal = sig]
    ELSE [p EXCEPT !.signal = sig, !.running = FALSE, !.accepting = FALSE,
                   !.aborted = p.in_flight, !.in_flight = 0]

\* main: the subcommand runs serve, or Controller::run in a spawned task;
\* neither is given a handle or a shutdown future, and nothing awaits
\* shutdown_signal.
InitShutdown ==
    /\ bot = None
    /\ config_map = None
    /\ pvc = None
    /\ deployment = None
    /\ service = None
    /\ stable = FALSE
    /\ last = NoReconcile
    /\ \E cmd \in Commands, init_process \in BOOLEAN :
          probe = [cmd |-> cmd, init_process |-> init_process,
                   running |-> TRUE, accepting |-> TRUE, awaits_signal |-> FALSE,
                   grace |-> None, signal |-> "none",
                   in_flight |-> 0, handled |-> 0, aborted |-> 0]

\* A connection is accepted and its handler starts, or a reconcile starts.
Begin ==
    /\ probe.running
    /\ probe.accepting
    /\ probe.in_flight < MaxInFlight
    /\ probe.in_flight + probe.handled < MaxHandled
    /\ probe' = [probe EXCEPT !.in_flight = @ + 1]
    /\ UNCHANGED <<bot, config_map, pvc, deployment, service, stable, last>>

\* A handler or a reconcile returns; a draining server with nothing left in
\* flight ends serve.
Complete ==
    /\ probe.running
    /\ probe.in_flight > 0
    /\ probe' = [probe EXCEPT !.in_flight = @ - 1, !.handled = @ + 1,
                              !.running = probe.accepting \/ probe.in_flight > 1]
    /\ UNCHANGED <<bot, config_map, pvc, deployment, service, stable, last>>

\* The process is sent SIGINT or SIGTERM.
Signal ==
    /\ probe.running
    /\ probe.signal = "none"
    /\ \E sig \in Signals :
          probe' = IF probe.awaits_signal THEN shutdown_signal(probe, sig)
                   ELSE default_disposition(probe, sig)
    /\ UNCHANGED <<bot, config_map, pvc, deployment, service, stable, last>>

NextShutdown ==
    \/ Begin
    \/ Complete
    \/ Signal

SpecShutdown == InitShutdown /\ [][NextShutdown]_vars

(***************************************************************************)
(* The drift detector on its own: has_drifted of an observed and a desired *)
(* object that agree except in one optional field, over every way the      *)
(* field may be set on either side.                                        *)
(***************************************************************************)
OptionalFields ==
    {"storage_class_name", "image_pull_policy", "resources",
     "container_security_context", "node_selector", "pod_security_context"}

FieldValues == {None, Some("first"), Some("second"), Some("third")}

\* The PVC or the Deployment with the field set to the value.
WithField(object, field, value) ==
    CASE field = "storage_class_name" ->
            [object EXCEPT !.spec = Some([unwrap(@) EXCEPT !.storage_class_name = value])]
      [] field = "image_pull_policy" ->
            [object EXCEPT !.containers[1].image_pull_policy = value]
      [] field = "resources" ->
            [object EXCEPT !.containers[1].resources = value]
      [] field = "container_security_context" ->
            [object EXCEPT !.containers[1].security_context = value]
      [] field = "node_selector" ->
            [object EXCEPT !.node_selector = value]
      [] field = "pod_security_context" ->
            [object EXCEPT !.security_context = value]

\* The projection in which the field lies.
ProjectionOf(spec, field) ==
    IF field = "storage_class_name" THEN PersistentVolumeClaim_from_hub(spec)
    ELSE Deployment_from_hub(spec)

InitCompare ==
    /\ bot = None
    /\ config_map = None
    /\ pvc = None
    /\ deployment = None
    /\ service = None
    /\ stable = FALSE
    /\ last = NoReconcile
    /\ \E field \in OptionalFields, observed \in FieldValues, desired \in FieldValues :
          LET object == ProjectionOf(BotSpec(None, TRUE, FALSE), field)
          IN  probe = [field |-> field,
                       observed |-> WithField(object, field, observed),
                       desired |-> WithField(object, field, desired),
                       observed_value |-> observed,
                       desired_value |-> desired,
                       drift |-> None]

\* has_drifted as reconcile_bot calls it: on the observed object, with the
\* desired one as argument.
Compare ==
    /\ is_none(probe.drift)
    /\ probe' = [probe EXCEPT !.drift = Some(
          IF probe.field = "storage_class_name"
          THEN PersistentVolumeClaim_has_drifted(probe.observed, probe.desired)
          ELSE Deployment_has_drifted(probe.observed, probe.desired))]
    /\ UNCHANGED <<bot, config_map, pvc, deployment, service, stable, last>>

NextCompare == Compare

SpecCompare == InitCompare /\ [][NextCompare]_vars

(***************************************************************************)
(* compare_env_vars on its own, over every pair of env lists of at most    *)
(* MaxVars variables, a name occurring more than once included.            *)
(***************************************************************************)
MaxVars == 2

EnvVars ==
    {create_env_var(n, Some(v)) :
        n \in {"FREQTRADE__BOT_NAME", "FREQTRADE__STRATEGY"}, v \in {"one", "two"}}

EnvLists == {None} \cup {Some(l) : l \in SeqsUpTo(EnvVars, MaxVars)}

InitEnv ==
    /\ bot = None
    /\ config_map = None
    /\ pvc = None
    /\ deployment = None
    /\ service = None
    /\ stable = FALSE
    /\ last = NoReconcile
    /\ \E self_vars \in EnvLists, other_vars \in EnvLists :
          probe = [self_vars |-> self_vars, other_vars |-> other_vars, drift |-> None]

\* compare_env_vars as Deployment::has_drifted calls it for a pair of
\* containers.
CompareEnv ==
    /\ is_none(probe.drift)
    /\ probe' = [probe EXCEPT
                   !.drift = Some(compare_env_vars(probe.self_vars, probe.other_vars))]
    /\ UNCHANGED <<bot, config_map, pvc, deployment, service, stable, last>>

NextEnv == CompareEnv

SpecEnv == InitEnv /\ [][NextEnv]_vars

(***************************************************************************)
(* compare_volumes on its own, over every pair of volume lists of at most  *)
(* MaxVolumes volumes backed by a ConfigMap or by a PVC.                   *)
(***************************************************************************)
MaxVolumes == 2

ConfigMapVolume(name, config_map_name, default_mode) ==
    [name |-> name,
     config_map |-> Some([name |-> config_map_name, default_mode |-> default_mode]),
     persistent_volume_claim |-> None]

ClaimVolume(name, claim_name) ==
    [name |-> name,
     config_map |-> None,
     persistent_volume_claim |-> Some([claim_name |-> claim_name])]

Volumes ==
    {ConfigMapVolume("config", "bot", m) : m \in {None, Some(DEFAULT_MODE), Some(256)}}
    \cup {ConfigMapVolume("config", "other", None),
          ConfigMapVolume("strategy", "bot", None)}
    \cup {ClaimVolume("user-data", c) : c \in {"bot", "other"}}
    \cup {ClaimVolume("config", "bot")}

VolumeLists == {None} \cup {Some(l) : l \in SeqsUpTo(Volumes, MaxVolumes)}

InitVolumes ==
    /\ bot = None
    /\ config_map = None
    /\ pvc = None
    /\ deployment = None
    /\ service = None
    /\ stable = FALSE
    /\ last = NoReconcile
    /\ \E self_vols \in VolumeLists, other_vols \in VolumeLists :
          probe = [self_vols |-> self_vols, other_vols |-> other_vols, drift |-> None]

\* compare_volumes as Deployment::has_drifted calls it.
CompareVolumes ==
    /\ is_none(probe.drift)
    /\ probe' = [probe EXCEPT
                   !.drift = Some(compare_volumes(probe.self_vols, probe.other_vols))]
    /\ UNCHANGED <<bot, config_map, pvc, deployment, service, stable, last>>

NextVolumes == CompareVolumes

SpecVolumes == InitVolumes /\ [][NextVolumes]_vars

(***************************************************************************)
(* Service::has_drifted on its own, over every pair of Services with one   *)
(* of two types, one of two selectors and at most MaxPorts ports.          *)
(***************************************************************************)
MaxPorts == 2

ServicePorts ==
    {[name |-> Some(n), port |-> p, target_port |-> Some(n), protocol |-> proto] :
        n \in {"api"}, p \in {DEFAULT_API_PORT, 9090},
        proto \in {None, Some("TCP"), Some("UDP")}}

Services ==
    {[labels |-> None, type |-> Some(t), selector |-> Some(sel), ports |-> Some(ports)] :
        t \in {"ClusterIP", "NodePort"},
        sel \in {identifying_labels, [identifying_labels EXCEPT !["app.kubernetes.io/instance"] = "other"]},
        ports \in SeqsUpTo(ServicePorts, MaxPorts)}

InitService ==
    /\ bot = None
    /\ config_map = None
    /\ pvc = None
    /\ deployment = None
    /\ service = None
    /\ stable = FALSE
    /\ last = NoReconcile
    /\ \E self \in Services, other \in Services :
          probe = [self |-> self, other |-> other, drift |-> None]

\* has_drifted as reconcile_bot calls it on the fetched Service.
CompareService ==
    /\ is_none(probe.drift)
    /\ probe' = [probe EXCEPT !.drift = Some(Service_has_drifted(probe.self, probe.other))]
    /\ UNCHANGED <<bot, config_map, pvc, deployment, service, stable, last>>

NextService == CompareService

SpecService == InitService /\ [][NextService]_vars

(***************************************************************************)
(* The life of a Bot whose configuration and optional dependents the user  *)
(* edits while the Deployment controller reports the rollout: every step   *)
(* of reconcile_bot has work to do in some reconcile.                      *)
(***************************************************************************)
NextOrder ==
    \/ ReconcileOk
    \/ ReconcileFaulty
    \/ Reconciled
    \/ \E pvc_enabled \in BOOLEAN, api_enabled \in BOOLEAN :
          CreateBot(None, pvc_enabled, api_enabled)
    \/ \E config \in Configs, pvc_enabled \in BOOLEAN, api_enabled \in BOOLEAN :
          UpdateSpec(config, pvc_enabled, api_enabled)
    \/ \E conditions \in {None, Some(<<Condition("Available", "True"),
                                       Condition("Progressing", "True")>>)} :
          DeploymentController(conditions)

SpecOrder == Init /\ [][NextOrder]_vars

(***************************************************************************)
(* The life of a Bot whose configuration the user edits, under a scheduler *)
(* that keeps reconciling it.                                              *)
(***************************************************************************)
NextRollout ==
    \/ ReconcileClean
    \/ ReconcileFaulty
    \/ Reconciled
    \/ \E config \in Configs : CreateBot(config, TRUE, TRUE)
    \/ \E config \in Configs : UpdateSpec(config, TRUE, TRUE)

\* Fairness: the controller takes the result of every reconcile, and the
\* Bot key is reconciled again and again (the 30-second requeue of the apply
\* path and of error_policy), some of these reconciles having all their
\* calls succeed.
SpecRollout ==
    /\ Init
    /\ [][NextRollout]_vars
    /\ WF_vars(Reconciled)
    /\ SF_vars(ReconcileClean)

(***************************************************************************)
(* A Bot whose optional dependents the user switches on and off in a       *)
(* namespace where another actor creates a PVC or a Service of the Bot's   *)
(* name before the operator does.                                          *)
(***************************************************************************)
\* An object of the Bot's name that the operator did not create: it carries
\* no owner reference and no label of the operator.
Foreign(obj) == [obj EXCEPT !.owner_references = None, !.labels = None]

CreateForeign(kind) ==
    /\ Idle
    /\ CASE kind = "pvc" ->
              /\ is_none(pvc)
              /\ pvc' = Some(Foreign(DefaultedPvc(
                             PersistentVolumeClaim_from_hub(BotSpec(None, TRUE, TRUE)))))
              /\ UNCHANGED service
         [] kind = "service" ->
              /\ is_none(service)
              /\ service' = Some(Foreign(DefaultedService(
                                 Service_from_hub(BotSpec(None, TRUE, TRUE)))))
              /\ UNCHANGED pvc
    /\ stable' = FALSE
    /\ UNCHANGED <<bot, config_map, deployment, last, probe>>

NextForeign ==
    \/ ReconcileOk
    \/ ReconcileFaulty
    \/ Reconciled
    \/ \E pvc_enabled \in BOOLEAN, api_enabled \in BOOLEAN :
          CreateBot(None, pvc_enabled, api_enabled)
    \/ \E pvc_enabled \in BOOLEAN, api_enabled \in BOOLEAN :
          UpdateSpec(None, pvc_enabled, api_enabled)
    \/ \E kind \in {"pvc", "service"} : CreateForeign(kind)
    \/ \E kind \in {"pvc", "service"} : DeleteDependent(kind)

SpecForeign == Init /\ [][NextForeign]_vars

(***************************************************************************)
(* The status step of reconcile_bot on its own, over every status the Bot  *)
(* may carry and every Deployment the step may hold: one without a status, *)
(* or one with a condition list of at most MaxConds conditions.            *)
(***************************************************************************)
\* deployment.as_ref().unwrap().status.clone().unwrap(), then BotPhase::from:
\* Option::unwrap panics on a Deployment whose status is None.
derived_phase(d) ==
    IF is_none(d.status) THEN Panic ELSE [phase |-> BotPhaseFrom(unwrap(d.status))]

\* The status step: the closure of is_none_or derives the phase when the Bot
\* has a status, and the body derives it again when the patch is due, so
\* the phase is derived whatever the status of the Bot is.
status_step(hub_status, d) ==
    LET derived == derived_phase(d) IN
    IF Panicked(derived) THEN Panic
    ELSE [calls |-> IF is_none(hub_status) \/ derived.phase # unwrap(hub_status).phase
                    THEN <<StatusCall(derived.phase)>> ELSE <<>>]

HubStatuses ==
    {None} \cup {Some([phase |-> ph, last_updated |-> UtcNow]) :
                    ph \in {"pending", "running", "error"}}

InitStatus ==
    /\ bot = None
    /\ config_map = None
    /\ pvc = None
    /\ deployment = None
    /\ service = None
    /\ stable = FALSE
    /\ last = NoReconcile
    /\ \E hub_status \in HubStatuses,
          status \in {None} \cup {Some(st) : st \in DeploymentStatuses} :
          probe = [hub_status |-> hub_status, held |-> [status |-> status],
                   result |-> None]

DeriveStatus ==
    /\ is_none(probe.result)
    /\ probe' = [probe EXCEPT !.result = Some(status_step(probe.hub_status, probe.held))]
    /\ UNCHANGED <<bot, config_map, pvc, deployment, service, stable, last>>

NextStatus == DeriveStatus

SpecStatus == InitStatus /\ [][NextStatus]_vars

(***************************************************************************)
(* Properties.  They read the log of the reconcile that has just returned  *)
(* (last) and the objects it started from (last.before).                   *)
(***************************************************************************)
InSeq(x, s) == \E i \in 1..Len(s) : s[i] = x

Before == unwrap(last.before)

ApplyPath == last.path = "apply"
ApplyOk == last.path = "apply" /\ last.ok

\* status.phase of a stored Bot; "none" without a Bot or without a status.
PhaseOf(b) ==
    IF is_some(b) /\ is_some(unwrap(b).status) THEN unwrap(unwrap(b).status).phase
    ELSE "none"

HasCondition(status, t, s) ==
    /\ is_some(status.conditions)
    /\ InSeq(Condition(t, s), unwrap(status.conditions))

\* The config-hash annotation the reconcile read: that of the Deployment it
\* started from, empty when there was none or the fetch gave nothing.
ReadAnnotation ==
    IF "deployment" \in last.get_fail \/ is_none(Before.deployment) THEN <<>>
    ELSE unwrap(Before.deployment).config_hash

\* The hash of the ConfigMap data projected from the Bot.
ProjectedHash == compute_object_hash(ConfigMap_from_hub(Before.bot.spec).data)

\* The status of the Deployment the reconcile started from (an apply keeps
\* it; a Deployment created by the reconcile has none yet).
LatestDeploymentStatus ==
    IF is_some(Before.deployment) THEN unwrap(Before.deployment).status ELSE EmptyStatus

NoDependents(st) ==
    is_none(st.config_map) /\ is_none(st.pvc) /\ is_none(st.deployment) /\ is_none(st.service)

\* C1 (as stated): the apply-path reconcile that follows a successful one,
\* with no object changed in between, issues no call at all and returns the
\* 30-second requeue.
C1_ApplyIdempotence ==
    (ApplyPath /\ last.after_stable) =>
        /\ last.calls = <<>>
        /\ last.ok
        /\ last.requeue = Some(REQUEUE_SECS)

\* C2: in an apply-path reconcile a rollout is issued only if the projected
\* hash differs from the annotation read and that annotation is not empty;
\* a reconcile that returns Ok issues it whenever that is so; none is issued
\* when the Deployment was absent or had no annotation.
C2_RolloutIff ==
    ApplyPath =>
        LET changed == ProjectedHash # ReadAnnotation /\ ReadAnnotation # <<>>
        IN  /\ InSeq("rollout", last.calls) => changed
            /\ last.ok => (changed => InSeq("rollout", last.calls))
            /\ is_none(Before.deployment) => ~InSeq("rollout", last.calls)
            /\ (is_some(Before.deployment) /\ unwrap(Before.deployment).config_hash = <<>>)
                  => ~InSeq("rollout", last.calls)
            /\ (is_some(Before.deployment)
                /\ unwrap(Before.deployment).config_hash = ProjectedHash)
                  => ~InSeq("rollout", last.calls)

\* A reconcile that returned Ok rolled the Deployment out for a changed hash.
C2_Witness ==
    /\ ApplyOk
    /\ InSeq("rollout", last.calls)
    /\ ReadAnnotation # <<>>
    /\ unwrap(deployment).restarted_at = Some(UtcNow)

\* C3: after an apply-path reconcile that returned Ok the config-hash
\* annotation of the stored Deployment is the hash of the data of the stored
\* ConfigMap, and the annotation patch was issued exactly when the projected
\* hash differed from the annotation read; no reconcile patches it otherwise.
C3_HashAnnotation ==
    /\ ApplyOk =>
          /\ is_some(deployment) /\ is_some(config_map)
          /\ unwrap(deployment).config_hash = compute_object_hash(unwrap(config_map).data)
          /\ InSeq("patch_config_hash", last.calls) <=> (ProjectedHash # ReadAnnotation)
    /\ (ApplyPath /\ InSeq("patch_config_hash", last.calls))
          => ProjectedHash # ReadAnnotation

\* A reconcile that returned Ok replaced one hash annotation by another.
C3_Witness ==
    /\ ApplyOk
    /\ InSeq("patch_config_hash", last.calls)
    /\ ReadAnnotation # <<>>
    /\ unwrap(deployment).config_hash = compute_object_hash(unwrap(config_map).data)

\* The Bot of the create flow: default pvc and api, no status, not being
\* deleted, no dependents.
NewBot(st) ==
    /\ is_none(st.bot.status)
    /\ ~st.bot.deletion_timestamp
    /\ st.bot.spec.pvc.enabled /\ st.bot.spec.api.enabled
    /\ NoDependents(st)

Materialised ==
    /\ is_some(config_map) /\ is_some(pvc) /\ is_some(deployment) /\ is_some(service)
    /\ PhaseOf(bot) = "pending"
    /\ unwrap(deployment).config_hash # <<>>

\* C4 (as stated): one reconcile invocation that returns Ok on a new Bot
\* leaves the four dependents in place, phase pending and the hash
\* annotation on the Deployment.
C4_CreateInOneReconcile ==
    (last.path \in {"add_finalizer", "apply"} /\ last.ok /\ NewBot(Before)) => Materialised

\* C4 (amended): the first invocation on a new Bot adds the finalizer and
\* nothing else; the invocation after it, the first on the apply path, leaves
\* the four dependents in place, phase pending and the hash annotation on the
\* Deployment when it returns Ok.
C4_CreateFlow ==
    /\ (last.path = "add_finalizer" /\ last.ok /\ NewBot(Before)) =>
          /\ last.calls = <<"add_finalizer">>
          /\ unwrap(bot).finalizer
          /\ PhaseOf(bot) = "none"
          /\ NoDependents([config_map |-> config_map, pvc |-> pvc,
                           deployment |-> deployment, service |-> service])
    /\ (ApplyOk /\ NewBot(Before)) =>
          /\ Before.bot.finalizer
          /\ Materialised

\* The first apply-path reconcile of a new Bot has returned Ok.
C4_Witness ==
    /\ ApplyOk
    /\ NewBot(Before)
    /\ Materialised
    /\ last.calls = <<"patch_status", "apply_config_map", "apply_pvc", "apply_deployment",
                      "patch_config_hash", "patch_status", "apply_service">>

\* C5 (as stated): after an apply-path reconcile that returned Ok the PVC
\* exists exactly when spec.pvc.enabled and the Service exactly when
\* spec.api.enabled.
C5_OptionalDependents ==
    ApplyOk =>
        /\ is_some(pvc) <=> Before.bot.spec.pvc.enabled
        /\ is_some(service) <=> Before.bot.spec.api.enabled

\* C6: after an apply-path reconcile that returned Ok the stored Deployment
\* has one replica, also when it had another count before.
C6_SingleReplica ==
    ApplyOk => (is_some(deployment) /\ unwrap(deployment).replicas = Some(REPLICAS))

\* A Deployment scaled to two replicas has been applied back to one.
C6_Witness ==
    /\ ApplyOk
    /\ is_some(Before.deployment)
    /\ unwrap(Before.deployment).replicas = Some(2)
    /\ InSeq("apply_deployment", last.calls)
    /\ unwrap(deployment).replicas = Some(REPLICAS)

\* C7: the derived phase is error exactly when a condition is
\* Progressing=False, running exactly when none is and a condition is
\* Available=True, pending in every other case (no list and the empty list
\* among them), and never anything else.
C7_PhaseDerivation ==
    probe.phase # "unset" =>
        LET failed == HasCondition(probe.status, "Progressing", "False")
            available == HasCondition(probe.status, "Available", "True")
        IN  /\ probe.phase \in {"error", "running", "pending"}
            /\ probe.phase = "error" <=> failed
            /\ probe.phase = "running" <=> (~failed /\ available)
            /\ probe.phase = "pending" <=> (~failed /\ ~available)
            /\ (is_none(probe.status.conditions) \/ probe.status.conditions = Some(<<>>))
                  => probe.phase = "pending"

\* Progressing=False wins over an Available=True that comes first.
C7_Witness ==
    /\ probe.phase = "error"
    /\ probe.status.conditions =
          Some(<<Condition("Available", "True"), Condition("Progressing", "False")>>)

\* C8: for a Bot with a status, an apply-path reconcile patches the status
\* only if the phase derived from the Deployment status differs from
\* status.phase; one that returns Ok patches it once, to the derived phase,
\* when they differ, and leaves the status as it was when they agree.
C8_StatusPatchIff ==
    (ApplyPath /\ is_some(Before.bot.status)) =>
        LET derived == BotPhaseFrom(LatestDeploymentStatus)
            phase == unwrap(Before.bot.status).phase
        IN  /\ InSeq("patch_status", last.calls) => derived # phase
            /\ (last.ok /\ derived # phase) =>
                  /\ last.phases = <<derived>>
                  /\ PhaseOf(bot) = derived
            /\ (last.ok /\ derived = phase) =>
                  /\ last.phases = <<>>
                  /\ unwrap(bot).status = Before.bot.status

\* The Deployment became available and the phase went from pending to running.
C8_Witness ==
    /\ ApplyOk
    /\ PhaseOf(Some(Before.bot)) = "pending"
    /\ HasCondition(LatestDeploymentStatus, "Available", "True")
    /\ last.phases = <<"running">>
    /\ PhaseOf(bot) = "running"

\* C9: a status patch with phase error is issued only on the apply path and
\* only when the Deployment status has a Progressing=False condition, whether
\* the reconcile returns Ok or an error; status.phase becomes error in no
\* other way.
C9_ErrorOnlyDerived ==
    [][ /\ InSeq("error", last'.phases) =>
              /\ last'.path = "apply"
              /\ is_some(deployment')
              /\ HasCondition(unwrap(deployment').status, "Progressing", "False")
        /\ (PhaseOf(bot') = "error" /\ PhaseOf(bot) # "error") =>
              InSeq("error", last'.phases) ]_vars

\* Phase error has been written for a Deployment that stopped progressing.
C9_Witness ==
    /\ ApplyOk
    /\ last.phases = <<"error">>
    /\ PhaseOf(bot) = "error"
    /\ HasCondition(LatestDeploymentStatus, "Progressing", "False")

\* C10: a status patch with phase deleting is issued only on the cleanup
\* path, for a Bot whose deletion timestamp is set; the cleanup path issues no
\* status patch with another phase; status.phase becomes deleting in no
\* other way.
C10_DeletingOnlyCleanup ==
    [][ /\ InSeq("deleting", last'.phases) =>
              /\ last'.path = "cleanup"
              /\ is_some(bot) /\ unwrap(bot).deletion_timestamp
        /\ last'.path = "apply" => ~InSeq("deleting", last'.phases)
        /\ last'.path = "cleanup" => \A i \in 1..Len(last'.phases) : last'.phases[i] = "deleting"
        /\ (PhaseOf(bot') = "deleting" /\ PhaseOf(bot) # "deleting") =>
              InSeq("deleting", last'.phases) ]_vars

\* The cleanup path has written phase deleting and the finalizer is still on.
C10_Witness ==
    /\ last.path = "cleanup"
    /\ last.phases = <<"deleting">>
    /\ PhaseOf(bot) = "deleting"
    /\ unwrap(bot).deletion_timestamp

HasFinalizer(b) == is_some(b) /\ unwrap(b).finalizer

\* C11: a Bot that carries the finalizer loses it (and with it disappears)
\* only in a cleanup whose status patch with phase deleting was accepted
\* before the finalizer was removed; a cleanup whose status patch fails issues
\* nothing else and leaves the Bot, finalizer included, as it was.
C11_FinalizerOrdering ==
    [][ /\ (HasFinalizer(bot) /\ ~HasFinalizer(bot')) =>
              /\ last'.path = "cleanup"
              /\ last'.ok
              /\ last'.calls = <<"patch_status", "remove_finalizer">>
              /\ last'.phases = <<"deleting">>
        /\ (last'.path = "cleanup" /\ ~last'.ok /\ last'.calls = <<"patch_status">>) =>
              /\ bot' = bot
              /\ HasFinalizer(bot') ]_vars

\* The status patch of a cleanup has failed: the finalizer is still on the
\* Bot and phase deleting has not been written.
C11_Witness ==
    /\ last.path = "cleanup"
    /\ ~last.ok
    /\ last.calls = <<"patch_status">>
    /\ HasFinalizer(bot)
    /\ PhaseOf(bot) # "deleting"

BeingDeleted(b) == HasFinalizer(b) /\ unwrap(b).deletion_timestamp

\* C12: under fairness, a Bot whose deletion timestamp is set and that
\* carries the finalizer eventually has phase deleting written and its
\* finalizer removed in one cleanup, and the Bot and all its dependents
\* are eventually gone.
C12_DeletionLiveness ==
    /\ BeingDeleted(bot) ~>
          (/\ last.path = "cleanup" /\ last.ok
           /\ last.phases = <<"deleting">>
           /\ is_none(bot))
    /\ BeingDeleted(bot) ~> (is_none(bot) /\ NoDependents(
          [config_map |-> config_map, pvc |-> pvc,
           deployment |-> deployment, service |-> service]))

\* A cleanup has removed a Bot that was being deleted, after an earlier
\* cleanup had failed; its dependents are left to the garbage collector.
C12_Witness ==
    /\ last.path = "cleanup" /\ last.ok
    /\ BeingDeleted(Some(Before.bot))
    /\ PhaseOf(Some(Before.bot)) = "deleting"
    /\ last.phases = <<"deleting">>
    /\ is_none(bot)
    /\ is_some(deployment)

\* The stored dependents agree with the projection of spec on every field
\* the projection sets; the fields it leaves unset hold the server's defaults.
Converged(spec) ==
    /\ is_some(config_map) => unwrap(config_map) = ConfigMap_from_hub(spec)
    /\ is_some(pvc) =>
          unwrap(pvc) = DefaultedPvc(PersistentVolumeClaim_from_hub(spec))
    /\ is_some(deployment) =>
          DeploymentView(unwrap(deployment)) = DefaultedDeployment(Deployment_from_hub(spec))
    /\ is_some(service) =>
          unwrap(service) = DefaultedService(Service_from_hub(spec))

\* C13 (as stated): after an apply-path reconcile that returned Ok, every
\* existing dependent agrees with the projection of the current spec,
\* labels and Service ports included.
C13_Convergence ==
    ApplyOk => Converged(unwrap(bot).spec)

\* The Bot is there and is not being deleted.
Live == is_some(bot) /\ ~unwrap(bot).deletion_timestamp

\* The dependents that should exist exist and agree with the projection.
Healthy ==
    /\ is_some(config_map) /\ is_some(deployment)
    /\ unwrap(bot).spec.pvc.enabled => is_some(pvc)
    /\ unwrap(bot).spec.api.enabled => is_some(service)
    /\ Converged(unwrap(bot).spec)

\* C14 (as stated): under fairness, whenever a dependent of a Bot that is not
\* being deleted is missing or differs from the projection, a later reconcile
\* re-applies it: the dependents are eventually all there and as projected,
\* unless the Bot is deleted first.
C14_SelfHealing ==
    (Live /\ ~Healthy) ~> (~Live \/ Healthy)

\* C15 (as stated): every reconcile, whether it ends in an error or in
\* success and whichever path it took, is followed by a requeue after 30
\* seconds.
C15_RequeueAlways ==
    ~Idle => last.requeue = Some(REQUEUE_SECS)

\* C15 (amended): a reconcile that ends in an error is requeued after 30
\* seconds; a successful reconcile on the apply path is requeued after 30
\* seconds; a successful reconcile that added the finalizer or ran the
\* cleanup is not requeued and waits for the next change.
C15_RequeuePolicy ==
    ~Idle =>
       /\ ~last.ok => last.requeue = Some(REQUEUE_SECS)
       /\ (last.ok /\ last.path = "apply") => last.requeue = Some(REQUEUE_SECS)
       /\ (last.ok /\ last.path \in {"add_finalizer", "cleanup"}) => last.requeue = None

\* A cleanup has returned Ok, the Bot is gone and no requeue is scheduled.
C15_Witness ==
    /\ last.path = "cleanup"
    /\ last.ok
    /\ last.calls = <<"patch_status", "remove_finalizer">>
    /\ last.requeue = None
    /\ is_none(bot)

\* C16 (as stated): when compute_object_hash fails, the incoming hash is the
\* empty one and no rollout is issued, whatever annotation the Deployment
\* carries.
C16_HashFailureNoRollout ==
    (probe.done /\ probe.failed) =>
       /\ probe.incoming = <<>>
       /\ ~InSeq("rollout", probe.calls)

RECURSIVE SameUpToOrder(_, _)
\* Two JSON objects as written have the same keys and, under each key, the
\* same string or nested objects that again differ in the order of their
\* entries at most.
SameUpToOrder(a, b) ==
    /\ Len(a) = Len(b)
    /\ \A i \in 1..Len(a) : \E j \in 1..Len(b) :
          /\ b[j].key = a[i].key
          /\ IsStr(b[j].value) = IsStr(a[i].value)
          /\ IF IsStr(a[i].value) THEN b[j].value = a[i].value
             ELSE SameUpToOrder(a[i].value.obj, b[j].value.obj)

SameConfig(s, t) ==
    \/ is_none(s) /\ is_none(t)
    \/ is_some(s) /\ is_some(t) /\ SameUpToOrder(unwrap(s), unwrap(t))

StrategySources == {Some("pass"), Some("return")}

\* C17: a spec whose spec.config differs from the hashed one in the order of
\* keys only, at any nesting level, has the same hash, and neither a
\* ConfigMap apply nor an annotation patch nor a rollout follows from the
\* reordering; a spec whose projected ConfigMap data differ in a value (of
\* the configuration or of the strategy source) has another hash.
C17_HashStability ==
    (probe.done /\ ~probe.failed) =>
       \A text \in ConfigTexts, source \in StrategySources :
          LET spec == SpecOf(probe.text)
              other == [SpecOf(text) EXCEPT !.strategy.source = source]
              hash == incoming_config_hash(other)
          IN  /\ (SameConfig(probe.text, text) /\ source = spec.strategy.source) =>
                    /\ hash = probe.incoming
                    /\ ConfigMapStep(Some(ConfigMap_from_hub(spec)), other) = <<>>
                    /\ ConfigHashStep(probe.incoming, hash) = <<>>
              /\ ConfigMap_from_hub(spec).data # ConfigMap_from_hub(other).data =>
                    hash # probe.incoming

\* A configuration with a nested object of two entries has been hashed, its
\* keys can be written in another order at both levels, and the Deployment
\* carries that hash: no call is issued.
C17_Witness ==
    /\ probe.done /\ ~probe.failed
    /\ is_some(probe.text)
    /\ Len(unwrap(probe.text)) = 2
    /\ \E i \in 1..2 : /\ ~IsStr(unwrap(probe.text)[i].value)
                       /\ Len(unwrap(probe.text)[i].value.obj) = 2
    /\ \E text \in ConfigTexts :
          /\ text # probe.text
          /\ SameConfig(probe.text, text)
          /\ unwrap(text)[1].key # unwrap(probe.text)[1].key
    /\ probe.current = probe.incoming
    /\ probe.calls = <<>>

\* The object carries each identifying label with the name of the Bot.
CarriesIdentifyingLabels(o) ==
    /\ is_some(o.labels)
    /\ \A k \in DOMAIN identifying_labels :
          /\ k \in DOMAIN unwrap(o.labels)
          /\ unwrap(o.labels)[k] = identifying_labels[k]

\* C18 (as stated): after an apply-path reconcile that returned Ok, the
\* ConfigMap, the PVC, the Deployment and the Service each carry the three
\* identifying labels, equal to the name of the Bot.
C18_LabelInvariant ==
    ApplyOk =>
       \A o \in {config_map, pvc, deployment, service} :
          is_some(o) => CarriesIdentifyingLabels(unwrap(o))

\* The three identifying labels of the Bot named bot, written out.
IdentifyingOfBot ==
    [k \in {"freqtrade.io/bot-name", "app.kubernetes.io/name",
            "app.kubernetes.io/instance"} |-> "bot"]

\* C19: whatever spec.deployment.labels the user gives, the metadata labels
\* and the pod-template labels of the projected Deployment map each
\* identifying key to the name of the Bot, the selectors of the Deployment
\* and of the Service are exactly the identifying labels, and the pod
\* template matches the selector of the Service.
C19_IdentifyingLabelsWin ==
    probe.done =>
       LET d == unwrap(probe.deployment)
           s == unwrap(probe.service)
       IN  /\ is_some(d.labels) /\ is_some(d.template_labels)
           /\ \A k \in DOMAIN IdentifyingOfBot :
                 /\ k \in DOMAIN unwrap(d.labels)
                 /\ unwrap(d.labels)[k] = "bot"
                 /\ k \in DOMAIN unwrap(d.template_labels)
                 /\ unwrap(d.template_labels)[k] = "bot"
           /\ d.selector = IdentifyingOfBot
           /\ s.selector = Some(IdentifyingOfBot)
           /\ \A k \in DOMAIN unwrap(s.selector) :
                 unwrap(d.template_labels)[k] = unwrap(s.selector)[k]

\* The user's labels use every identifying key with another value and add a
\* label of their own: the projection keeps the user's own label and the
\* name of the Bot under the identifying keys.
C19_Witness ==
    /\ probe.done
    /\ is_some(probe.spec.deployment.labels)
    /\ DOMAIN unwrap(probe.spec.deployment.labels) = LabelKeys
    /\ \A k \in LabelKeys : unwrap(probe.spec.deployment.labels)[k] = "other"
    /\ unwrap(unwrap(probe.deployment).labels)["team"] = "other"
    /\ unwrap(unwrap(probe.deployment).labels)["freqtrade.io/bot-name"] = "bot"

\* C20 (as stated): when api.enabled, the projected Service has exactly one
\* port named api and its number is spec.api.port, whatever
\* spec.service.ports the user gives.
C20_ExclusiveApiPort ==
    (probe.done /\ probe.spec.api.enabled) =>
       LET ports == unwrap(unwrap(probe.service).ports)
           named_api == {i \in 1..Len(ports) : ports[i].name = Some("api")}
       IN  /\ Cardinality(named_api) = 1
           /\ \A i \in named_api : ports[i].port = probe.spec.api.port

\* C21: has_drifted of a projected ConfigMap, PVC, Deployment or Service
\* against itself is false.
C21_DriftReflexivity ==
    is_some(probe.self_drift) =>
       LET drift == unwrap(probe.self_drift)
       IN  /\ ~drift.config_map
           /\ ~drift.pvc
           /\ ~drift.deployment
           /\ ~drift.service

\* The four projections of a Bot with user labels, two Service ports, a pull
\* policy and a storage class have each been compared with themselves.
C21_Witness ==
    /\ is_some(probe.self_drift)
    /\ is_some(probe.spec.deployment.labels)
    /\ Len(unwrap(unwrap(probe.service).ports)) >= 2
    /\ is_some(unwrap(probe.deployment).containers[1].image_pull_policy)
    /\ is_some(unwrap(unwrap(probe.pvc).spec).storage_class_name)
    /\ ~unwrap(probe.self_drift).deployment

\* The review under test, its object and the answer of the endpoint.
AdmitRequest == unwrap(probe.review.request)
AdmitObject == unwrap(AdmitRequest.object)
AdmitResponse == unwrap(probe.response)

HasObject == is_some(probe.review.request) /\ is_some(AdmitRequest.object)

HasTypes == HasObject /\ is_some(AdmitObject.types)

IsBotV1alpha1 ==
    /\ HasTypes
    /\ unwrap(AdmitObject.types).kind = "Bot"
    /\ unwrap(AdmitObject.types).api_version = <<"freqtrade.io", "/", "v1alpha1">>

ReviewedSpec ==
    IF "spec" \in DOMAIN AdmitObject.data THEN AdmitObject.data["spec"] ELSE Null

HasMember(v, k) == IsObj(v) /\ k \in DOMAIN v.obj

\* The path of two or three keys leads to a value, object by object.
PathPresent(v, p) ==
    /\ HasMember(v, p[1])
    /\ HasMember(v.obj[p[1]], p[2])
    /\ Len(p) = 3 => HasMember(v.obj[p[1]].obj[p[2]], p[3])

Dotted(p) ==
    IF Len(p) = 2 THEN <<p[1], ".", p[2]>>
    ELSE <<p[1], ".", p[2], ".", p[3]>>

ReservedConfigPaths ==
    {<<"config", k>> : k \in {"add_config_files", "recursive_strategy_search",
                              "strategy_path", "strategy", "bot_name", "db_url"}}
    \cup {<<"config", "api_server", k>> :
             k \in {"enabled", "listen_ip_address", "listen_port",
                    "jwt_secret_key", "username", "password", "ws_token"}}
    \cup {<<"config", "telegram", k>> : k \in {"token", "chat_id"}}
    \cup {<<"config", "exchange", k>> : k \in {"name", "key", "secret", "password"}}
    \cup {<<"config", "freqai", "enabled">>}

DeniedFor(what) ==
    /\ ~AdmitResponse.allowed
    /\ Len(AdmitResponse.message) = 4
    /\ AdmitResponse.message[2] = what

\* C22: a v1alpha1 Bot in whose spec a reserved configuration path resolves
\* by nested key walk is denied, whatever the value at the path, with a
\* reason naming a reserved key that is present; a Bot with none of the
\* reserved paths is not denied for a reserved configuration key.
C22_ReservedConfigDenied ==
    (probe.done /\ IsBotV1alpha1) =>
       LET present == {p \in ReservedConfigPaths : PathPresent(ReviewedSpec, p)}
       IN  /\ present # {} =>
                /\ ~AdmitResponse.allowed
                /\ \E p \in present :
                      AdmitResponse.message =
                         <<"validation error", "config key", Dotted(p), "is reserved">>
           /\ present = {} => ~DeniedFor("config key")

\* A Bot whose config.exchange.key is null has been denied.
C22_Witness ==
    /\ probe.done
    /\ IsBotV1alpha1
    /\ PathPresent(ReviewedSpec, <<"config", "exchange", "key">>)
    /\ ReviewedSpec.obj["config"].obj["exchange"].obj["key"] = Null
    /\ DeniedFor("config key")

ReservedEnvNames == {RESERVED_ENV_VARS[i][1] : i \in 1..Len(RESERVED_ENV_VARS)}

\* The names of spec.deployment.env that the validator reserves.
UserReservedEnv ==
    {n \in ReservedEnvNames : InSeq(n, deployment_env(ReviewedSpec))}

Occurrences(x, s) == Cardinality({i \in 1..Len(s) : s[i] = x})

\* C23: a Bot whose spec.deployment.env has an entry with a reserved name is
\* denied, and the Deployment of an admitted Bot lists no operator-injected
\* variable twice.
C23_ReservedEnvDenied ==
    (probe.done /\ IsBotV1alpha1) =>
       /\ UserReservedEnv # {} => ~AdmitResponse.allowed
       /\ AdmitResponse.allowed =>
             \A i \in 1..Len(InjectedEnvNames) :
                Occurrences(InjectedEnvNames[i], container_env_names(ReviewedSpec)) = 1

AdmitTypes == unwrap(AdmitObject.types)

\* The segment of the apiVersion after its last "/".
VersionSegment == AdmitTypes.api_version[Len(AdmitTypes.api_version)]

DeniedAs(error) ==
    /\ ~AdmitResponse.allowed
    /\ AdmitResponse.message[1] = error

\* The answer is that of the reserved-key and reserved-variable checks.
ReservedChecksDecide ==
    LET result == validate_bot_v1alpha1(ReviewedSpec)
    IN  IF result.ok THEN AdmitResponse.allowed
        ELSE DeniedAs("validation error") /\ AdmitResponse.message = result.error

\* C24 as stated: a kind other than Bot is denied as an invalid kind;
\* otherwise an apiVersion other than freqtrade.io/v1alpha1 is denied as an
\* invalid version; otherwise the reserved checks decide.
C24_GroupVersionOrder ==
    (probe.done /\ HasTypes) =>
       IF AdmitTypes.kind # "Bot" THEN DeniedAs("invalid kind")
       ELSE IF AdmitTypes.api_version # <<"freqtrade.io", "/", "v1alpha1">>
       THEN DeniedAs("invalid version")
       ELSE ReservedChecksDecide

\* C24, amended: a kind other than Bot is denied as an invalid kind;
\* otherwise an apiVersion whose segment after the last "/" is not v1alpha1
\* is denied as an invalid version, whatever its group; otherwise the
\* reserved checks decide.
C24_VersionOrder ==
    (probe.done /\ HasTypes) =>
       IF AdmitTypes.kind # "Bot" THEN DeniedAs("invalid kind")
       ELSE IF VersionSegment # "v1alpha1" THEN DeniedAs("invalid version")
       ELSE ReservedChecksDecide

\* An object of another kind and of another version has been denied for its
\* kind.
C24_Witness ==
    /\ probe.done
    /\ HasTypes
    /\ AdmitTypes.kind = "Pod"
    /\ AdmitTypes.api_version = <<"freqtrade.io", "/", "v1beta1">>
    /\ DeniedAs("invalid kind")

Answered == probe.done /\ ~Panicked(AdmitResponse)

\* C25 as stated: every response, also the one to a review rejected as
\* invalid, carries a request UID, that of the request it answers.
C25_UidAlways ==
    Answered =>
       /\ AdmitResponse.uid \in Uids
       /\ is_some(probe.review.request) => AdmitResponse.uid = AdmitRequest.uid

\* C25, amended: every response to a review that holds a request, allow or
\* deny, carries the UID of that request; a review without a request is
\* answered with a denial whose UID is empty.
C25_UidEcho ==
    Answered =>
       IF is_some(probe.review.request)
       THEN AdmitResponse.uid = AdmitRequest.uid
       ELSE ~AdmitResponse.allowed /\ AdmitResponse.uid = ""

\* A denial that carries the UID of the second request.
C25_Witness ==
    /\ Answered
    /\ is_some(probe.review.request)
    /\ AdmitRequest.uid = "uid-2"
    /\ ~AdmitResponse.allowed
    /\ AdmitResponse.uid = "uid-2"

\* C26: every review posted to the endpoint is answered with an admission
\* response, an allow or a denial with a reason; the handler never panics.
C26_AlwaysAnswers ==
    probe.done =>
       /\ ~Panicked(AdmitResponse)
       /\ AdmitResponse.allowed \/ AdmitResponse.message # <<>>

\* The secret items of the Bot, by the variable each is projected to.
SecretItemOf(name) ==
    CASE name = "FREQTRADE__API_SERVER__USERNAME" /\ is_some(probe.secrets.api) ->
            unwrap(probe.secrets.api).username
      [] name = "FREQTRADE__API_SERVER__PASSWORD" /\ is_some(probe.secrets.api) ->
            unwrap(probe.secrets.api).password
      [] name = "FREQTRADE__EXCHANGE__KEY" /\ is_some(probe.secrets.exchange) ->
            unwrap(probe.secrets.exchange).key
      [] OTHER -> None

IsReference(item) == is_some(item) /\ "secret_key_ref" \in DOMAIN unwrap(item)

\* C27: no request of the controller targets Secret objects and no Secret
\* reaches the operator; a secret reference of the spec is copied into the
\* variable as a valueFrom secretKeyRef and nothing else.
C27_NeverReadsSecret ==
    /\ \A o \in probe.operations : o.kind # "Secret"
    /\ probe.received = {}
    /\ is_some(probe.env) =>
          \A i \in 1..Len(unwrap(probe.env)) :
             LET var == unwrap(probe.env)[i]
                 item == SecretItemOf(var.name)
             IN  IsReference(item) =>
                    /\ is_none(var.value)
                    /\ var.value_from = Some(unwrap(item))

\* C28: once SIGINT or SIGTERM has been sent, the process accepts no new
\* connection or reconcile, and what was in flight is not cut off: nothing
\* is aborted.
C28_GracefulShutdown ==
    probe.signal # "none" =>
       /\ ~probe.accepting
       /\ probe.aborted = 0

Drift == unwrap(probe.drift)

DeploymentOptionalFields ==
    {"image_pull_policy", "resources", "container_security_context",
     "node_selector", "pod_security_context"}

\* C31: in Deployment drift detection each of image pull policy, resources,
\* container security context, node selector and pod security context
\* causes drift only when both objects set it and the values differ; a
\* field present on one side only is not drift.
C31_DriftOnlyWhenBothSet ==
    (is_some(probe.drift) /\ probe.field \in DeploymentOptionalFields) =>
       (Drift <=> /\ is_some(probe.observed_value)
                  /\ is_some(probe.desired_value)
                  /\ probe.observed_value # probe.desired_value)

BothLists == is_some(probe.self_vars) /\ is_some(probe.other_vars)

Count(x, s) == Cardinality({i \in 1..Len(s) : s[i] = x})

\* The two lists hold the same variables the same number of times.
SameMultiset(s, t) == \A x \in EnvVars : Count(x, s) = Count(x, t)

\* The variables of the list that carry the name, in the order of the list.
Named(s, n) ==
    LET HasName(x) == x.name = n
    IN  SelectSeq(s, HasName)

EnvNames == {x.name : x \in EnvVars}

\* C32 as stated: two env lists report drift exactly when they differ as
\* multisets, also when a name occurs more than once.
C32_EnvMultiset ==
    (is_some(probe.drift) /\ BothLists) =>
       (Drift <=> ~SameMultiset(unwrap(probe.self_vars), unwrap(probe.other_vars)))

\* C32, amended: two env lists report no drift exactly when, for every
\* name, they hold the same variables of that name in the same order; lists
\* that differ as multisets report drift, and permutations of one another
\* report none provided variables of one name keep their relative order.
C32_EnvStableOrder ==
    (is_some(probe.drift) /\ BothLists) =>
       LET s == unwrap(probe.self_vars)
           t == unwrap(probe.other_vars)
       IN  /\ Drift <=> \E n \in EnvNames : Named(s, n) # Named(t, n)
           /\ ~SameMultiset(s, t) => Drift

\* Two lists of two variables of different names, in opposite orders, have
\* been compared without drift.
C32_Witness ==
    /\ is_some(probe.drift)
    /\ BothLists
    /\ Len(unwrap(probe.self_vars)) = 2
    /\ unwrap(probe.self_vars)[1].name # unwrap(probe.self_vars)[2].name
    /\ unwrap(probe.other_vars) =
          <<unwrap(probe.self_vars)[2], unwrap(probe.self_vars)[1]>>
    /\ ~Drift

\* The one difference between two volumes that is to be tolerated: both are
\* backed by the same ConfigMap under the same volume name, and the default
\* mode is 420 on one side and unset on the other.
ToleratedDifference(v, w) ==
    /\ v.name = w.name
    /\ v.persistent_volume_claim = w.persistent_volume_claim
    /\ is_some(v.config_map)
    /\ is_some(w.config_map)
    /\ unwrap(v.config_map).name = unwrap(w.config_map).name
    /\ {unwrap(v.config_map).default_mode, unwrap(w.config_map).default_mode}
          = {None, Some(DEFAULT_MODE)}

\* C33: two volume lists of the same length, paired by name, report drift
\* exactly when some paired volumes differ in any field, a ConfigMap default
\* mode of 420 against an unset one excepted.
C33_VolumeDrift ==
    (/\ is_some(probe.drift)
     /\ is_some(probe.self_vols)
     /\ is_some(probe.other_vols)
     /\ Len(unwrap(probe.self_vols)) = Len(unwrap(probe.other_vols))) =>
       LET s == sort_by_name(unwrap(probe.self_vols))
           t == sort_by_name(unwrap(probe.other_vols))
       IN  Drift <=> \E i \in 1..Len(s) :
                        s[i] # t[i] /\ ~ToleratedDifference(s[i], t[i])

\* What of a Service port is compared, an absent protocol read as TCP.
PortKey(p) == <<p.name, p.port, p.target_port, unwrap_or(p.protocol, "TCP")>>

PortKeys(svc) == [i \in 1..Len(unwrap(svc.ports)) |-> PortKey(unwrap(svc.ports)[i])]

\* C34: Service drift is reported exactly when the type differs, the
\* selector differs, or the port lists differ position by position on
\* (name, port, targetPort, protocol or TCP), lists of different lengths
\* being different.
C34_ServiceDrift ==
    is_some(probe.drift) =>
       (Drift <=> \/ probe.self.type # probe.other.type
                  \/ probe.self.selector # probe.other.selector
                  \/ PortKeys(probe.self) # PortKeys(probe.other))

\* The step of reconcile_bot that issues a call.
StepOf(op) ==
    CASE op \in {"apply_pvc", "delete_pvc"} -> "pvc"
      [] op \in {"apply_service", "delete_service"} -> "service"
      [] OTHER -> op

\* The steps after the initial status patch, in the order the claim gives.
LaterSteps ==
    <<"apply_config_map", "pvc", "apply_deployment", "patch_config_hash", "rollout",
      "patch_status", "service">>

RECURSIVE IsSubsequence(_, _)
IsSubsequence(s, t) ==
    IF s = <<>> THEN TRUE
    ELSE IF t = <<>> THEN FALSE
    ELSE IF s[1] = t[1] THEN IsSubsequence(Tail(s), Tail(t))
    ELSE IsSubsequence(s, Tail(t))

\* The calls of the reconcile after its initial pending patch.
LaterCalls == IF is_none(Before.bot.status) THEN Tail(last.calls) ELSE last.calls

\* C35: the mutating calls of an apply-path reconcile come in the fixed
\* order initial pending patch (exactly when the Bot has no status), ConfigMap
\* apply, PVC apply or delete, Deployment apply, hash annotation patch,
\* rollout patch, derived-phase status patch, Service apply or delete; and
\* the derived phase is that of the Deployment as this reconcile's apply
\* returned it when it applied one.
C35_CallOrder ==
    ApplyPath =>
       /\ is_none(Before.bot.status) =>
             last.calls # <<>> /\ last.calls[1] = "patch_status" /\ last.phases[1] = "pending"
       /\ IsSubsequence([i \in 1..Len(LaterCalls) |-> StepOf(LaterCalls[i])], LaterSteps)
       /\ \A i \in 1..Len(LaterCalls) :
             LaterCalls[i] = "patch_status" /\ InSeq("apply_deployment", last.calls) =>
                last.phases[Len(last.phases)] = BotPhaseFrom(unwrap(deployment).status)

\* A reconcile that could not fetch a running Deployment applies it, patches
\* the hash, rolls out and writes the phase of the Deployment it got back.
C35_Witness ==
    /\ ApplyPath
    /\ "deployment" \in last.get_fail
    /\ last.calls = <<"apply_config_map", "apply_deployment", "patch_config_hash",
                      "patch_status", "delete_service">>
    /\ last.phases = <<"running">>

\* C36: a fetch that fails although the dependent is stored (so the
\* failure is not a not-found) fails the reconcile before any call is
\* issued; the object is never taken to be absent because of it.
C36_FetchFailureFails ==
    ApplyPath /\ (\E kind \in last.get_fail : is_some(Before[kind])) =>
       ~last.ok /\ last.calls = <<>>

\* The reconcile that has just returned had its rollout patch accepted.
RolloutApplied ==
    /\ ApplyPath
    /\ InSeq("rollout", last.calls)
    /\ last.ok \/ last.calls[Len(last.calls)] # "rollout"

\* The reconcile that has just returned changed the annotation of an
\* annotated Deployment to another non-empty value and applied no rollout.
RolloutOwed ==
    /\ ApplyPath
    /\ is_some(Before.deployment)
    /\ is_some(deployment)
    /\ unwrap(Before.deployment).config_hash # <<>>
    /\ unwrap(deployment).config_hash # <<>>
    /\ unwrap(deployment).config_hash # unwrap(Before.deployment).config_hash
    /\ ~RolloutApplied

\* C37: no lost rollout: when a reconcile changes the config-hash
\* annotation of an already annotated Deployment from one non-empty value
\* to another without applying the rollout patch, a later reconcile applies
\* it.
C37_NoLostRollout == RolloutOwed ~> RolloutApplied

\* The object carries the controller owner reference of the Bot.
OwnedByBot(obj) ==
    is_some(obj.owner_references) /\ InSeq(owner_ref, unwrap(obj.owner_references))

\* C38: a reconcile issues the delete of the PVC or of the Service only
\* when the stored object carries the controller owner reference of the
\* Bot.
C38_DeleteOnlyOwned ==
    ApplyPath =>
       /\ InSeq("delete_pvc", last.calls) =>
             is_some(Before.pvc) /\ OwnedByBot(unwrap(Before.pvc))
       /\ InSeq("delete_service", last.calls) =>
             is_some(Before.service) /\ OwnedByBot(unwrap(Before.service))

\* What the accepted call c of an apply-path reconcile wrote is in the
\* stored objects st; later is what the reconcile had accepted after c.
Written(c, later, st, spec) ==
    CASE c.op = "patch_status" ->
            /\ is_some(st.bot)
            /\ is_some(unwrap(st.bot).status)
            /\ InSeq("patch_status", Ops(later))
               \/ unwrap(unwrap(st.bot).status).phase = c.phase
      [] c.op = "apply_config_map" -> st.config_map = Some(ConfigMap_from_hub(spec))
      [] c.op = "apply_pvc" ->
            st.pvc = Some(DefaultedPvc(PersistentVolumeClaim_from_hub(spec)))
      [] c.op = "delete_pvc" -> is_none(st.pvc)
      [] c.op = "apply_deployment" ->
            /\ is_some(st.deployment)
            /\ DeploymentView(unwrap(st.deployment))
                  = DefaultedDeployment(Deployment_from_hub(spec))
      [] c.op = "patch_config_hash" ->
            is_some(st.deployment) /\ unwrap(st.deployment).config_hash = c.hash
      [] c.op = "rollout" ->
            is_some(st.deployment) /\ is_some(unwrap(st.deployment).restarted_at)
      [] c.op = "apply_service" ->
            st.service = Some(DefaultedService(Service_from_hub(spec)))
      [] c.op = "delete_service" -> is_none(st.service)
      [] OTHER -> FALSE

C40_TotalDerivation ==
    is_some(probe.result) /\ is_none(probe.held.status) =>
       /\ ~Panicked(unwrap(probe.result))
       /\ unwrap(probe.result).calls =
             (IF probe.hub_status = None \/ unwrap(probe.hub_status).phase # "pending"
              THEN <<StatusCall("pending")>> ELSE <<>>)

====
